---- MODULE Spec2Model ----
(***************************************************************************)
(* Verification model of the course-research analysis tools:               *)
(*   course_quality_validator.py   (CourseQualityValidator and its main)   *)
(*   course_terminology_analyzer.py (CourseTerminologyAnalyzer and main)   *)
(*                                                                         *)
(* Text encoding.  TLA+ strings are ASCII, so every Japanese character of  *)
(* the source is written as a three character code: "~nn" a katakana       *)
(* character, "#nn" a CJK ideograph, "^nn" a hiragana character.  A code   *)
(* always starts with its sigil, so substring search over the encoded      *)
(* strings coincides with substring search over the original characters.   *)
(***************************************************************************)
EXTENDS Integers, Sequences, FiniteSets, TLC

(***************************************************************************)
(* Bounds of the model                                                     *)
(***************************************************************************)
MaxWebRecords == 3
MaxVideoRecords == 2

(***************************************************************************)
(* Generic sequence and string helpers (Python built-ins)                  *)
(***************************************************************************)
\* len(x) > 0 for strings, str `in`
Contains(hay, needle) ==
    \E i \in 1..(Len(hay) - Len(needle) + 1) :
        SubSeq(hay, i, i + Len(needle) - 1) = needle

UpperLetters == "ABCDEFGHIJKLMNOPQRSTUVWXYZ"
LowerLetters == "abcdefghijklmnopqrstuvwxyz"
Digits == "0123456789"

\* str.lower() on one character: ASCII capitals fold, everything else
\* (digits, punctuation, the sigils and digits of the Japanese codes) stays
LowerTable ==
    [c \in {SubSeq(UpperLetters, i, i) : i \in 1..26} |->
        LET i == CHOOSE k \in 1..26 : SubSeq(UpperLetters, k, k) = c
        IN  SubSeq(LowerLetters, i, i)]

LowerChar(c) == IF c \in DOMAIN LowerTable THEN LowerTable[c] ELSE c

RECURSIVE Lower(_)
Lower(s) ==
    IF Len(s) = 0 THEN ""
    ELSE LowerChar(SubSeq(s, 1, 1)) \o Lower(SubSeq(s, 2, Len(s)))

RECURSIVE SumSeq(_)
SumSeq(s) == IF s = <<>> THEN 0 ELSE Head(s) + SumSeq(Tail(s))

\* sum(1 for v in seq if ...), from the sequence of the condition's values
CountTrue(flags) == Cardinality({i \in 1..Len(flags) : flags[i]})

\* s[:n]
Take(s, n) == SubSeq(s, 1, IF Len(s) < n THEN Len(s) ELSE n)

\* all sequences over S of length at most n
SeqUpTo(S, n) == UNION {[1..k -> S] : k \in 0..n}

(***************************************************************************)
(* Japanese words of the source, encoded                                   *)
(***************************************************************************)
Shisutemu == "~01~02~03~04"
Puroguramu == "~05~06~07~08~04"
Arugorizumu == "~09~10~11~12~13~04"
Deeta == "~14~15~16"
Nettowaaku == "~17~18~19~20~15~21"
Sekyuriti == "~22~23~24~12~03~25"
Kuraudo == "~21~08~26~27"
Gyoumu == "#01#02"
Kouritsu == "#03#04"
Seisansei == "#05#06#07"
Kosuto == "~28~02~19"
Uriage == "#08#09"
Rieki == "#10#11"
Maaketingu == "~29~15~30~03~25~31~07"
Eigyou == "#12#01"
Kanri == "#13#14"
Senryaku == "#15#16"
Keiei == "#17#12"
Gakushuu == "#18#19"
Kyouiku == "#20#21"
Kenshuu == "#22#23"
Toreeningu == "~19~32~15~33~31~07"
Sukiru == "~02~23~10"
Chishiki == "#24#25"
Rikai == "#14#26"
Shuutoku == "#19#27"
Jissen == "#28#29"
Kihon == "#30#31"
Gaiyou == "#32#33"
Nyuumon == "#34#35"
Houhou == "#36#37"
Tsukaikata == "#38^01#36"
Katsuyou == "#39#40"
Jirei == "#41#42"
Kouza == "#43#44"

(***************************************************************************)
(* CourseTerminologyAnalyzer: fixed tables                                 *)
(***************************************************************************)
\* self.stopwords: only the ASCII entries can equal a token, the Japanese
\* entries are hiragana words
stopwords ==
    { "^02^03", "^04^03", "^05^03", "^02^06", "^04^06", "^05^06",
      "^02^07", "^08^06", "^09^10", "^11^12", "^02^02", "^04^02", "^05^04^02",
      "the", "a", "an", "is", "are", "was", "were", "be", "been",
      "have", "has", "had", "do", "does", "did", "will", "would",
      "can", "could", "may", "might", "must", "shall", "should",
      "this", "that", "these", "those", "and", "or", "but", "not" }

tech_patterns ==
    << "AI", "API", "ChatGPT", "GPT", "LLM", "DX", "IT",
       Shisutemu, Puroguramu, Arugorizumu, Deeta,
       Nettowaaku, Sekyuriti, Kuraudo >>

business_patterns ==
    << Gyoumu, Kouritsu, Seisansei, Kosuto, Uriage, Rieki,
       Maaketingu, Eigyou, Kanri, Senryaku, Keiei >>

learning_patterns ==
    << Gakushuu, Kyouiku, Kenshuu, Toreeningu, Sukiru,
       Chishiki, Rikai, Shuutoku, Jissen >>

\* the patterns as re.IGNORECASE compares them
Folded(patterns) == [i \in 1..Len(patterns) |-> Lower(patterns[i])]

tech_folded == Folded(tech_patterns)
business_folded == Folded(business_patterns)
learning_folded == Folded(learning_patterns)

\* any(re.search(pattern, term, re.IGNORECASE) for pattern in patterns), the
\* patterns being literals: a case-insensitive substring test
MatchesAny(folded_patterns, term) ==
    LET folded == Lower(term)
    IN  \E i \in 1..Len(folded_patterns) : Contains(folded, folded_patterns[i])

\* variant: the business patterns tried before the technical ones
CategorizeTerm_BusinessFirst(term) ==
    IF MatchesAny(business_folded, term) THEN "business"
    ELSE IF MatchesAny(tech_folded, term) THEN "technical"
    ELSE IF MatchesAny(learning_folded, term) THEN "learning"
    ELSE "general"

\* _categorize_term
CategorizeTerm(term) ==
    IF MatchesAny(tech_folded, term) THEN "technical"
    ELSE IF MatchesAny(business_folded, term) THEN "business"
    ELSE IF MatchesAny(learning_folded, term) THEN "learning"
    ELSE "general"

\* variant: the application markers tested before the introduction rule
LearningPhase_ApplicationFirst(term, category) ==
    IF Contains(term, Houhou) \/ Contains(term, Tsukaikata)
          \/ Contains(term, Katsuyou) \/ Contains(term, Jissen)
          \/ Contains(term, Jirei)
    THEN "application"
    ELSE IF category = "learning" \/ Contains(term, Kihon)
               \/ Contains(term, Gaiyou) \/ Contains(term, Nyuumon)
    THEN "introduction"
    ELSE "understanding"

\* the phase rule of map_to_learning_phases for one entry
LearningPhase(term, category) ==
    IF category = "learning" \/ Contains(term, Kihon)
          \/ Contains(term, Gaiyou) \/ Contains(term, Nyuumon)
    THEN "introduction"
    ELSE IF Contains(term, Houhou) \/ Contains(term, Tsukaikata)
               \/ Contains(term, Katsuyou) \/ Contains(term, Jissen)
               \/ Contains(term, Jirei)
    THEN "application"
    ELSE "understanding"

(***************************************************************************)
(* dict.get(key, default)                                                  *)
(***************************************************************************)
Get(d, key, default) == IF key \in DOMAIN d THEN d[key] ELSE default

EmptyDict == [k \in {} |-> 0]

(***************************************************************************)
(* CourseQualityValidator: per-record checks                               *)
(***************************************************************************)
SchemeChars == LowerLetters \o UpperLetters \o Digits \o "+-."

IsCharOf(c, alphabet) == \E i \in 1..Len(alphabet) : SubSeq(alphabet, i, i) = c

\* index of the first character of s that is one of chars, 0 when there is none
FirstIndex(s, chars) ==
    IF \E i \in 1..Len(s) : IsCharOf(SubSeq(s, i, i), chars)
    THEN CHOOSE i \in 1..Len(s) :
            /\ IsCharOf(SubSeq(s, i, i), chars)
            /\ \A j \in 1..(i - 1) : ~IsCharOf(SubSeq(s, j, j), chars)
    ELSE 0

\* urlparse(url): the scheme is the text before the first ':' when that text
\* starts with a letter and consists of scheme characters; the netloc is what
\* follows a leading '//' of the remainder, up to the first of '/', '?', '#'
UrlParse(url) ==
    LET colon == FirstIndex(url, ":")
        hasScheme ==
            /\ colon > 1
            /\ IsCharOf(SubSeq(url, 1, 1), LowerLetters \o UpperLetters)
            /\ \A j \in 1..(colon - 1) : IsCharOf(SubSeq(url, j, j), SchemeChars)
        scheme == IF hasScheme THEN Lower(SubSeq(url, 1, colon - 1)) ELSE ""
        rest == IF hasScheme THEN SubSeq(url, colon + 1, Len(url)) ELSE url
        afterSlashes == SubSeq(rest, 3, Len(rest))
        delim == FirstIndex(afterSlashes, "/?#")
        netloc ==
            IF Len(rest) >= 2 /\ SubSeq(rest, 1, 2) = "//"
            THEN IF delim = 0 THEN afterSlashes
                 ELSE SubSeq(afterSlashes, 1, delim - 1)
            ELSE ""
    IN  [scheme |-> scheme, netloc |-> netloc]

\* _validate_url
ValidateUrl(url) ==
    LET result == UrlParse(url)
    IN  result.scheme # "" /\ result.netloc # ""

high_credibility ==
    << "wikipedia.org", ".gov", ".edu", ".go.jp", ".ac.jp",
       "scholar.google", "researchgate.net", "arxiv.org" >>

medium_credibility ==
    << "itmedia.co.jp", "nikkei.com", "diamond.jp", "forbes.com",
       "techcrunch.com", "qiita.com", "zenn.dev", "github.com" >>

ContainsAnyDomain(domains, url_lower) ==
    \E i \in 1..Len(domains) : Contains(url_lower, domains[i])

\* variant: the medium list looked up before the high list
EvaluateCredibility_MediumFirst(url) ==
    IF url = "" THEN "unknown"
    ELSE LET url_lower == Lower(url)
         IN  IF ContainsAnyDomain(medium_credibility, url_lower) THEN "medium"
             ELSE IF ContainsAnyDomain(high_credibility, url_lower) THEN "high"
             ELSE "low"

\* _evaluate_credibility
EvaluateCredibility(url) ==
    IF url = "" THEN "unknown"
    ELSE LET url_lower == Lower(url)
         IN  IF ContainsAnyDomain(high_credibility, url_lower) THEN "high"
             ELSE IF ContainsAnyDomain(medium_credibility, url_lower) THEN "medium"
             ELSE "low"

(***************************************************************************)
(* _evaluate_overall_quality                                               *)
(***************************************************************************)
SourcesPoints(total_sources) ==
    IF total_sources >= 5 THEN 2 ELSE IF total_sources >= 3 THEN 1 ELSE 0

DataPoints(total_data_points) ==
    IF total_data_points >= 20 THEN 2 ELSE IF total_data_points >= 10 THEN 1 ELSE 0

\* variant: the upper threshold read as "more than 3"
CrediblePoints_Strict(credible_sources) ==
    IF credible_sources > 3 THEN 2 ELSE IF credible_sources >= 1 THEN 1 ELSE 0

CrediblePoints(credible_sources) ==
    IF credible_sources >= 3 THEN 2 ELSE IF credible_sources >= 1 THEN 1 ELSE 0

VolumePoints(youtube_words) ==
    IF youtube_words >= 10000 THEN 2 ELSE IF youtube_words >= 5000 THEN 1 ELSE 0

QualityScore(integrated_summary) ==
    SourcesPoints(Get(integrated_summary, "total_information_sources", 0))
    + DataPoints(Get(integrated_summary, "total_data_points", 0))
    + CrediblePoints(Get(integrated_summary, "credible_sources", 0))
    + VolumePoints(Get(Get(integrated_summary, "total_content_volume", EmptyDict),
                       "youtube_words", 0))

\* variant: excellent from a score of 5
QualityOfScore_ExcellentFromFive(score) ==
    IF score >= 5 THEN "excellent"
    ELSE IF score >= 3 THEN "acceptable"
    ELSE "needs_improvement"

QualityOfScore(score) ==
    IF score >= 7 THEN "excellent"
    ELSE IF score >= 5 THEN "good"
    ELSE IF score >= 3 THEN "acceptable"
    ELSE "needs_improvement"

EvaluateOverallQuality(integrated_summary) ==
    QualityOfScore(QualityScore(integrated_summary))

(***************************************************************************)
(* CourseQualityValidator: channel validation                              *)
(*                                                                         *)
(* A web source record is [url, content_length, character_count,           *)
(* data_points]: content_length is len(content) and data_points is the     *)
(* number of matches of the numeric pattern in content.  A transcript      *)
(* record is [text_length, word_count, total_duration, data_points], with  *)
(* total_duration in seconds, always a multiple of 60 here so that the     *)
(* division by 60 is exact.  Recommendation messages are records naming    *)
(* the rule that emitted them and the numbers quoted in the text.          *)
(***************************************************************************)
\* the body of the loop over sources
WebRecordValidation(i, source) ==
    [ source_number |-> i,
      url |-> source.url,
      checks |->
        [ url_valid |-> ValidateUrl(source.url),
          has_content |-> (source.content_length > 100 \/ source.character_count > 100),
          content_length |-> source.content_length,
          data_points_found |-> source.data_points,
          source_credibility |-> EvaluateCredibility(source.url) ] ]

IsUrlValid(v) == v.checks.url_valid
HasContent(v) == v.checks.has_content
IsCredible(v) == v.checks.source_credibility \in {"high", "medium"}

\* variant: total_sources counts only the sources that have content
WebSummary_ContentOnlyTotal(sources, validations) ==
    [ total_sources |-> CountTrue([i \in 1..Len(validations) |-> HasContent(validations[i])]),
      valid_urls |-> CountTrue([i \in 1..Len(validations) |-> IsUrlValid(validations[i])]),
      sources_with_content |-> CountTrue([i \in 1..Len(validations) |-> HasContent(validations[i])]),
      total_data_points |->
          SumSeq([i \in 1..Len(validations) |-> validations[i].checks.data_points_found]),
      credible_sources |-> CountTrue([i \in 1..Len(validations) |-> IsCredible(validations[i])]) ]

WebSummary(sources, validations) ==
    [ total_sources |-> Len(sources),
      valid_urls |-> CountTrue([i \in 1..Len(validations) |-> IsUrlValid(validations[i])]),
      sources_with_content |-> CountTrue([i \in 1..Len(validations) |-> HasContent(validations[i])]),
      total_data_points |->
          SumSeq([i \in 1..Len(validations) |-> validations[i].checks.data_points_found]),
      credible_sources |-> CountTrue([i \in 1..Len(validations) |-> IsCredible(validations[i])]) ]

\* _generate_web_recommendations
GenerateWebRecommendations(summary) ==
    LET r1 == IF summary.sources_with_content < summary.total_sources
              THEN << [rule |-> "web_content_shortfall",
                       n |-> summary.total_sources - summary.sources_with_content] >>
              ELSE << >>
        r2 == IF summary.total_data_points < 10
              THEN << [rule |-> "web_few_data_points", n |-> summary.total_data_points] >>
              ELSE << >>
        \* credible_ratio < 0.5, with credible_ratio 0 when there is no source
        lowRatio == IF summary.total_sources > 0
                    THEN 2 * summary.credible_sources < summary.total_sources
                    ELSE TRUE
        r3 == IF lowRatio
              THEN << [rule |-> "web_low_credibility",
                       n |-> summary.credible_sources, of |-> summary.total_sources] >>
              ELSE << >>
        recommendations == r1 \o r2 \o r3
    IN  IF recommendations = << >> THEN << [rule |-> "web_ok"] >> ELSE recommendations

\* variant: an empty list is validated like any other list
ValidateWebResearch_EmptyValidated(web_data) ==
    LET sources == Get(web_data, "sources", << >>)
        validations == [i \in 1..Len(sources) |-> WebRecordValidation(i, sources[i])]
        summary == WebSummary(sources, validations)
    IN  [ status |-> "validated",
          summary |-> summary,
          validations |-> validations,
          recommendations |-> GenerateWebRecommendations(summary) ]

\* validate_web_research, for a document that is a JSON object
ValidateWebResearch(web_data) ==
    IF Get(web_data, "sources", << >>) = << >>
    THEN [status |-> "no_data", message |-> "no_web_data"]
    ELSE LET sources == web_data.sources
             validations == [i \in 1..Len(sources) |-> WebRecordValidation(i, sources[i])]
             summary == WebSummary(sources, validations)
         IN  [ status |-> "validated",
               summary |-> summary,
               validations |-> validations,
               recommendations |-> GenerateWebRecommendations(summary) ]

\* the body of the loop over transcriptions
VideoRecordValidation(i, transcript) ==
    [ video_number |-> i,
      checks |->
        [ has_transcript |-> (transcript.text_length > 100 \/ transcript.word_count > 100),
          word_count |-> transcript.word_count,
          duration_minutes |-> transcript.total_duration \div 60,
          data_points_found |-> transcript.data_points ] ]

HasTranscript(v) == v.checks.has_transcript

VideoSummary(transcriptions, validations) ==
    [ total_videos |-> Len(transcriptions),
      videos_with_transcripts |-> CountTrue([i \in 1..Len(validations) |-> HasTranscript(validations[i])]),
      total_words |->
          SumSeq([i \in 1..Len(validations) |-> validations[i].checks.word_count]),
      total_duration_minutes |->
          SumSeq([i \in 1..Len(validations) |-> validations[i].checks.duration_minutes]),
      total_data_points |->
          SumSeq([i \in 1..Len(validations) |-> validations[i].checks.data_points_found]) ]

\* variant: the duration of the videos is not examined
GenerateYoutubeRecommendations_NoDurationRule(summary) ==
    LET r1 == IF summary.videos_with_transcripts < summary.total_videos
              THEN << [rule |-> "youtube_transcript_shortfall",
                       n |-> summary.total_videos - summary.videos_with_transcripts] >>
              ELSE << >>
        r2 == IF summary.total_words < 5000
              THEN << [rule |-> "youtube_few_words", n |-> summary.total_words] >>
              ELSE << >>
        recommendations == r1 \o r2
    IN  IF recommendations = << >> THEN << [rule |-> "youtube_ok"] >> ELSE recommendations

\* _generate_youtube_recommendations
GenerateYoutubeRecommendations(summary) ==
    LET r1 == IF summary.videos_with_transcripts < summary.total_videos
              THEN << [rule |-> "youtube_transcript_shortfall",
                       n |-> summary.total_videos - summary.videos_with_transcripts] >>
              ELSE << >>
        r2 == IF summary.total_words < 5000
              THEN << [rule |-> "youtube_few_words", n |-> summary.total_words] >>
              ELSE << >>
        r3 == IF summary.total_duration_minutes < 10
              THEN << [rule |-> "youtube_short_duration",
                       n |-> summary.total_duration_minutes] >>
              ELSE << >>
        recommendations == r1 \o r2 \o r3
    IN  IF recommendations = << >> THEN << [rule |-> "youtube_ok"] >> ELSE recommendations

\* variant: an empty list is validated like any other list
ValidateYoutubeResearch_EmptyValidated(youtube_data) ==
    LET transcriptions == Get(youtube_data, "transcriptions", << >>)
        validations == [i \in 1..Len(transcriptions) |->
                           VideoRecordValidation(i, transcriptions[i])]
        summary == VideoSummary(transcriptions, validations)
    IN  [ status |-> "validated",
          summary |-> summary,
          validations |-> validations,
          recommendations |-> GenerateYoutubeRecommendations(summary) ]

\* validate_youtube_research, for a document that is a JSON object
ValidateYoutubeResearch(youtube_data) ==
    IF Get(youtube_data, "transcriptions", << >>) = << >>
    THEN [status |-> "no_data", message |-> "no_youtube_data"]
    ELSE LET transcriptions == youtube_data.transcriptions
             validations == [i \in 1..Len(transcriptions) |->
                                VideoRecordValidation(i, transcriptions[i])]
             summary == VideoSummary(transcriptions, validations)
         IN  [ status |-> "validated",
               summary |-> summary,
               validations |-> validations,
               recommendations |-> GenerateYoutubeRecommendations(summary) ]

(***************************************************************************)
(* CourseQualityValidator: the integrated report                           *)
(***************************************************************************)
\* variant: the web characters are taken from the first validation only
IntegratedSummary_FirstValidationOnly(web_validation, youtube_validation) ==
    LET web_summary == Get(web_validation, "summary", EmptyDict)
        youtube_summary == Get(youtube_validation, "summary", EmptyDict)
        validations == Take(Get(web_validation, "validations", << >>), 1)
    IN  [ total_information_sources |->
              Get(web_summary, "total_sources", 0) + Get(youtube_summary, "total_videos", 0),
          total_data_points |->
              Get(web_summary, "total_data_points", 0)
              + Get(youtube_summary, "total_data_points", 0),
          credible_sources |-> Get(web_summary, "credible_sources", 0),
          total_content_volume |->
            [ web_characters |->
                  SumSeq([i \in 1..Len(validations) |-> validations[i].checks.content_length]),
              youtube_words |-> Get(youtube_summary, "total_words", 0) ] ]

\* variant: a channel without a summary counts as one information source
IntegratedSummary_DefaultOne(web_validation, youtube_validation) ==
    LET web_summary == Get(web_validation, "summary", EmptyDict)
        youtube_summary == Get(youtube_validation, "summary", EmptyDict)
        validations == Get(web_validation, "validations", << >>)
    IN  [ total_information_sources |->
              Get(web_summary, "total_sources", 1) + Get(youtube_summary, "total_videos", 1),
          total_data_points |->
              Get(web_summary, "total_data_points", 0)
              + Get(youtube_summary, "total_data_points", 0),
          credible_sources |-> Get(web_summary, "credible_sources", 0),
          total_content_volume |->
            [ web_characters |->
                  SumSeq([i \in 1..Len(validations) |-> validations[i].checks.content_length]),
              youtube_words |-> Get(youtube_summary, "total_words", 0) ] ]

\* the integrated_summary built by generate_quality_report
IntegratedSummary(web_validation, youtube_validation) ==
    LET web_summary == Get(web_validation, "summary", EmptyDict)
        youtube_summary == Get(youtube_validation, "summary", EmptyDict)
        validations == Get(web_validation, "validations", << >>)
    IN  [ total_information_sources |->
              Get(web_summary, "total_sources", 0) + Get(youtube_summary, "total_videos", 0),
          total_data_points |->
              Get(web_summary, "total_data_points", 0)
              + Get(youtube_summary, "total_data_points", 0),
          credible_sources |-> Get(web_summary, "credible_sources", 0),
          total_content_volume |->
            [ web_characters |->
                  SumSeq([i \in 1..Len(validations) |-> validations[i].checks.content_length]),
              youtube_words |-> Get(youtube_summary, "total_words", 0) ] ]

\* variant: the video channel's recommendations come before the web channel's
GenerateIntegratedRecommendations_VideoFirst(web_validation, youtube_validation, integrated_summary) ==
    LET quality == EvaluateOverallQuality(integrated_summary)
        lead == << [rule |-> "lead", tier |-> quality] >>
        web == IF Get(web_validation, "status", "none") = "validated"
               THEN Get(web_validation, "recommendations", << >>)
               ELSE << >>
        youtube == IF Get(youtube_validation, "status", "none") = "validated"
                   THEN Get(youtube_validation, "recommendations", << >>)
                   ELSE << >>
        total_data_points == Get(integrated_summary, "total_data_points", 0)
        closing == IF total_data_points > 0
                   THEN << [rule |-> "closing", n |-> total_data_points] >>
                   ELSE << >>
    IN  lead \o youtube \o web \o closing

\* _generate_integrated_recommendations
GenerateIntegratedRecommendations(web_validation, youtube_validation, integrated_summary) ==
    LET quality == EvaluateOverallQuality(integrated_summary)
        lead == << [rule |-> "lead", tier |-> quality] >>
        web == IF Get(web_validation, "status", "none") = "validated"
               THEN Get(web_validation, "recommendations", << >>)
               ELSE << >>
        youtube == IF Get(youtube_validation, "status", "none") = "validated"
                   THEN Get(youtube_validation, "recommendations", << >>)
                   ELSE << >>
        total_data_points == Get(integrated_summary, "total_data_points", 0)
        closing == IF total_data_points > 0
                   THEN << [rule |-> "closing", n |-> total_data_points] >>
                   ELSE << >>
    IN  lead \o web \o youtube \o closing

\* variant: the verdict taken from the web part of the summary only
GenerateQualityReport_WebOnlyVerdict(validation_date, web_validation, youtube_validation) ==
    LET integrated_summary == IntegratedSummary(web_validation, youtube_validation)
    IN  [ validation_date |-> validation_date,
          overall_quality |->
              EvaluateOverallQuality(IntegratedSummary(web_validation, EmptyDict)),
          web_research |-> web_validation,
          youtube_research |-> youtube_validation,
          integrated_summary |-> integrated_summary,
          quality_recommendations |->
              GenerateIntegratedRecommendations(web_validation, youtube_validation,
                                                integrated_summary) ]

\* variant: the verdict is computed for the recommendations only and
\* overall_quality keeps the value the report dict is created with
GenerateQualityReport_VerdictNotStored(validation_date, web_validation, youtube_validation) ==
    LET integrated_summary == IntegratedSummary(web_validation, youtube_validation)
    IN  [ validation_date |-> validation_date,
          overall_quality |-> "unknown",
          web_research |-> web_validation,
          youtube_research |-> youtube_validation,
          integrated_summary |-> integrated_summary,
          quality_recommendations |->
              GenerateIntegratedRecommendations(web_validation, youtube_validation,
                                                integrated_summary) ]

\* generate_quality_report
GenerateQualityReport(validation_date, web_validation, youtube_validation) ==
    LET integrated_summary == IntegratedSummary(web_validation, youtube_validation)
    IN  [ validation_date |-> validation_date,
          overall_quality |-> EvaluateOverallQuality(integrated_summary),
          web_research |-> web_validation,
          youtube_research |-> youtube_validation,
          integrated_summary |-> integrated_summary,
          quality_recommendations |->
              GenerateIntegratedRecommendations(web_validation, youtube_validation,
                                                integrated_summary) ]

(***************************************************************************)
(* CourseTerminologyAnalyzer: extraction                                   *)
(*                                                                         *)
(* A text is modelled by the list of its tokens: `words` is the result of  *)
(* re.findall on the text, in text order.                                  *)
(***************************************************************************)
PerChannelCap == 50
TopTermsCap == 30

Range(s) == {s[i] : i \in 1..Len(s)}

\* the keys of Counter(words), in insertion (first occurrence) order: the
\* words at the positions where a word occurs for the first time
CounterKeys(words) ==
    LET firsts == {i \in 1..Len(words) : \A j \in 1..(i - 1) : words[j] # words[i]}
    IN  [k \in 1..Cardinality(firsts) |->
            words[CHOOSE i \in firsts : Cardinality({j \in firsts : j <= i}) = k]]

Occurrences(words, word) == Cardinality({i \in 1..Len(words) : words[i] = word})

\* Counter(words).items()
CounterItems(words) ==
    LET keys == CounterKeys(words)
    IN  [i \in 1..Len(keys) |-> [word |-> keys[i], freq |-> Occurrences(words, keys[i])]]

\* variant: the stopword test on the word as written
KeepWord_CaseSensitive(item) == item.word \notin stopwords /\ item.freq >= 2

\* variant: no frequency threshold
KeepWord_NoThreshold(item) == Lower(item.word) \notin stopwords

\* the filter of the dict comprehension
KeepWord(item) == Lower(item.word) \notin stopwords /\ item.freq >= 2

\* variant: among equal keys the later element comes first
SortRank_TiesReversed(keys, i) ==
    Cardinality({j \in 1..Len(keys) :
                    \/ keys[j] > keys[i]
                    \/ keys[j] = keys[i] /\ j > i}) + 1

\* the rank of element i in a stable descending sort, from the sequence of the
\* elements' keys: the number of elements of larger key, plus the number of
\* earlier elements of equal key, plus one
SortRank(keys, i) ==
    Cardinality({j \in 1..Len(keys) :
                    \/ keys[j] > keys[i]
                    \/ keys[j] = keys[i] /\ j < i}) + 1

\* sorted(items, key=Key, reverse=True) and list.sort(key=Key, reverse=True):
\* descending by key, elements of equal key keep their original order
SortDescending(items, keys) ==
    [p \in 1..Len(items) |->
        items[CHOOSE i \in 1..Len(items) : SortRank(keys, i) = p]]

\* key=lambda x: x[1]
ItemFreq(items) == [i \in 1..Len(items) |-> items[i].freq]

\* variant: the whole sorted list is returned
ExtractTerms_Uncapped(words) ==
    LET filtered_words == SelectSeq(CounterItems(words), KeepWord)
        top == SortDescending(filtered_words, ItemFreq(filtered_words))
    IN  [i \in 1..Len(top) |->
            [ term |-> top[i].word,
              frequency |-> top[i].freq,
              category |-> CategorizeTerm(top[i].word),
              learning_phase |-> "None" ]]

\* _extract_terms, from the token list of the text
ExtractTerms(words) ==
    LET filtered_words == SelectSeq(CounterItems(words), KeepWord)
        sorted_terms == SortDescending(filtered_words, ItemFreq(filtered_words))
        top == Take(sorted_terms, PerChannelCap)
    IN  [i \in 1..Len(top) |->
            [ term |-> top[i].word,
              frequency |-> top[i].freq,
              category |-> CategorizeTerm(top[i].word),
              learning_phase |-> "None" ]]

\* ' '.join(...) of the per-record texts, as token lists
RECURSIVE JoinWords(_)
JoinWords(texts) ==
    IF texts = << >> THEN << >> ELSE Head(texts) \o JoinWords(Tail(texts))

\* extract_terminology_from_web; a source is modelled by the token list of
\* its title + ' ' + content
ExtractTerminologyFromWeb(web_data) ==
    IF Get(web_data, "sources", << >>) = << >>
    THEN [status |-> "no_data", terms |-> << >>]
    ELSE LET terms == ExtractTerms(JoinWords(web_data.sources))
         IN  [ status |-> "extracted", source_type |-> "web",
               terms |-> terms, total_unique_terms |-> Len(terms) ]

\* extract_terminology_from_youtube; a transcription is modelled by the token
\* list of its text
ExtractTerminologyFromYoutube(youtube_data) ==
    IF Get(youtube_data, "transcriptions", << >>) = << >>
    THEN [status |-> "no_data", terms |-> << >>]
    ELSE LET terms == ExtractTerms(JoinWords(youtube_data.transcriptions))
         IN  [ status |-> "extracted", source_type |-> "youtube",
               terms |-> terms, total_unique_terms |-> Len(terms) ]

(***************************************************************************)
(* CourseTerminologyAnalyzer: merge, phases and report                     *)
(***************************************************************************)
\* variant: only the categorised terms are given a phase
MapToLearningPhases_SkipsGeneral(terms) ==
    [i \in 1..Len(terms) |->
        IF terms[i].category = "general" THEN terms[i]
        ELSE [terms[i] EXCEPT
                 !.learning_phase = LearningPhase(terms[i].term, terms[i].category)]]

\* map_to_learning_phases
MapToLearningPhases(terms) ==
    [i \in 1..Len(terms) |->
        [terms[i] EXCEPT !.learning_phase = LearningPhase(terms[i].term, terms[i].category)]]

\* variant: terms are matched without regard to case
MergeTerm_CaseInsensitive(term_dict, term_info) ==
    LET tag == Get(term_info, "source_type", "unknown")
    IN  IF \E i \in 1..Len(term_dict) : Lower(term_dict[i].term) = Lower(term_info.term)
        THEN LET i == CHOOSE k \in 1..Len(term_dict) :
                          Lower(term_dict[k].term) = Lower(term_info.term)
             IN  [term_dict EXCEPT
                    ![i].frequency = @ + term_info.frequency,
                    ![i].sources = Append(@, tag)]
        ELSE Append(term_dict,
                    [ term |-> term_info.term,
                      frequency |-> term_info.frequency,
                      category |-> term_info.category,
                      learning_phase |-> term_info.learning_phase,
                      sources |-> << tag >> ])

\* variant: a term met again keeps the frequency of its first entry
MergeTerm_KeepFirst(term_dict, term_info) ==
    LET tag == Get(term_info, "source_type", "unknown")
    IN  IF \E i \in 1..Len(term_dict) : term_dict[i].term = term_info.term
        THEN LET i == CHOOSE k \in 1..Len(term_dict) : term_dict[k].term = term_info.term
             IN  [term_dict EXCEPT ![i].sources = Append(@, tag)]
        ELSE Append(term_dict,
                    [ term |-> term_info.term,
                      frequency |-> term_info.frequency,
                      category |-> term_info.category,
                      learning_phase |-> term_info.learning_phase,
                      sources |-> << tag >> ])

\* one iteration of the merge loop over all_terms; term_dict is the list of
\* the dict's values in insertion order
MergeTerm(term_dict, term_info) ==
    LET tag == Get(term_info, "source_type", "unknown")
    IN  IF \E i \in 1..Len(term_dict) : term_dict[i].term = term_info.term
        THEN LET i == CHOOSE k \in 1..Len(term_dict) : term_dict[k].term = term_info.term
             IN  [term_dict EXCEPT
                    ![i].frequency = @ + term_info.frequency,
                    ![i].sources = Append(@, tag)]
        ELSE Append(term_dict,
                    [ term |-> term_info.term,
                      frequency |-> term_info.frequency,
                      category |-> term_info.category,
                      learning_phase |-> term_info.learning_phase,
                      sources |-> << tag >> ])

\* the loop over all_terms[lo..hi], starting from term_dict; the range is
\* walked in two halves, the first half finished before the second begins
RECURSIVE MergeRange(_, _, _, _)
MergeRange(term_dict, all_terms, lo, hi) ==
    IF lo > hi THEN term_dict
    ELSE IF lo = hi THEN MergeTerm(term_dict, all_terms[lo])
    ELSE LET mid == (lo + hi) \div 2
             first_half == MergeRange(term_dict, all_terms, lo, mid)
         IN  IF Len(first_half) > 0
             THEN MergeRange(first_half, all_terms, mid + 1, hi)
             ELSE << >>

\* for term_info in all_terms, from the empty term_dict
MergeTerms(all_terms) == MergeRange(<< >>, all_terms, 1, Len(all_terms))

\* all_terms: the extracted channels' lists, web first
AllTerms(web_terms, youtube_terms) ==
    (IF Get(web_terms, "status", "none") = "extracted"
     THEN Get(web_terms, "terms", << >>) ELSE << >>)
    \o
    (IF Get(youtube_terms, "status", "none") = "extracted"
     THEN Get(youtube_terms, "terms", << >>) ELSE << >>)

\* key=lambda x: x['frequency']
TermFrequency(terms) == [i \in 1..Len(terms) |-> terms[i].frequency]

\* integrated_terms after the sort
IntegratedTerms(web_terms, youtube_terms) ==
    LET integrated_terms == MergeTerms(AllTerms(web_terms, youtube_terms))
    IN  SortDescending(integrated_terms, TermFrequency(integrated_terms))

\* _count_categories / _count_phases: Counter over one field of the entries
CountField(terms, field) ==
    [v \in {terms[i][field] : i \in 1..Len(terms)} |->
        Cardinality({i \in 1..Len(terms) : terms[i][field] = v})]

\* variant: the phase warnings also fire at a share of exactly 20%
GenerateTerminologyRecommendations_AtMostFifth(terms) ==
    LET categories == CountField(terms, "category")
        phases == CountField(terms, "learning_phase")
        n == Len(terms)
        r1 == IF 2 * Get(categories, "technical", 0) > n
              THEN << [rule |-> "many_technical"] >> ELSE << >>
        r2 == IF 2 * Get(categories, "business", 0) > n
              THEN << [rule |-> "many_business"] >> ELSE << >>
        r3 == IF 5 * Get(phases, "introduction", 0) <= n
              THEN << [rule |-> "few_introduction"] >> ELSE << >>
        r4 == IF 5 * Get(phases, "application", 0) <= n
              THEN << [rule |-> "few_application"] >> ELSE << >>
        rules == r1 \o r2 \o r3 \o r4
        top5 == Take(terms, 5)
    IN  (IF rules = << >> THEN << [rule |-> "balanced"] >> ELSE rules)
        \o << [rule |-> "top5", terms |-> [i \in 1..Len(top5) |-> top5[i].term]] >>

\* _generate_terminology_recommendations
GenerateTerminologyRecommendations(terms) ==
    LET categories == CountField(terms, "category")
        phases == CountField(terms, "learning_phase")
        n == Len(terms)
        r1 == IF 2 * Get(categories, "technical", 0) > n
              THEN << [rule |-> "many_technical"] >> ELSE << >>
        r2 == IF 2 * Get(categories, "business", 0) > n
              THEN << [rule |-> "many_business"] >> ELSE << >>
        r3 == IF 5 * Get(phases, "introduction", 0) < n
              THEN << [rule |-> "few_introduction"] >> ELSE << >>
        r4 == IF 5 * Get(phases, "application", 0) < n
              THEN << [rule |-> "few_application"] >> ELSE << >>
        rules == r1 \o r2 \o r3 \o r4
        top5 == Take(terms, 5)
    IN  (IF rules = << >> THEN << [rule |-> "balanced"] >> ELSE rules)
        \o << [rule |-> "top5", terms |-> [i \in 1..Len(top5) |-> top5[i].term]] >>

\* generate_terminology_report
GenerateTerminologyReport(analysis_date, web_terms, youtube_terms) ==
    LET integrated_terms == IntegratedTerms(web_terms, youtube_terms)
        top_terms == MapToLearningPhases(Take(integrated_terms, TopTermsCap))
    IN  [ analysis_date |-> analysis_date,
          terminology_summary |->
            [ total_unique_terms |-> Len(integrated_terms),
              top_terms_count |-> Len(top_terms),
              categories |-> CountField(top_terms, "category"),
              learning_phases |-> CountField(top_terms, "learning_phase") ],
          top_terms |-> top_terms,
          recommendations |-> GenerateTerminologyRecommendations(top_terms) ]

\* variant: term_dict[term] = term_info
StoresInputEntry_NoCopy == TRUE

\* whether the dict that term_dict holds for a term is the entry of the input
\* list itself.  The loop stores term_info.copy(), a new dict, so the updates
\* of the merge (frequency, sources) and of map_to_learning_phases
\* (learning_phase), which are made in place on the dicts of term_dict, never
\* reach an input entry.
StoresInputEntry == FALSE

\* a channel's result as generate_terminology_report leaves it.  `earlier` are
\* the entries that precede the channel's in all_terms: an entry is stored in
\* term_dict when no earlier entry has its term, and the dict stored for a term
\* ends as the entry of top_terms, or of integrated_terms when it is cut off
ChannelAfterReport(result, earlier, integrated_terms, top_terms) ==
    IF Get(result, "status", "none") # "extracted" THEN result
    ELSE LET terms == Get(result, "terms", << >>)
             stored(i) == /\ StoresInputEntry
                          /\ \A j \in 1..Len(earlier) : earlier[j].term # terms[i].term
             final(term) ==
                 IF \E k \in 1..Len(top_terms) : top_terms[k].term = term
                 THEN top_terms[CHOOSE k \in 1..Len(top_terms) : top_terms[k].term = term]
                 ELSE integrated_terms[CHOOSE k \in 1..Len(integrated_terms) :
                                           integrated_terms[k].term = term]
         IN  [result EXCEPT !.terms =
                 [i \in 1..Len(terms) |->
                     IF stored(i) THEN final(terms[i].term) ELSE terms[i]]]

\* the web and video arguments after the call
WebTermsAfterReport(analysis_date, web_terms, youtube_terms) ==
    ChannelAfterReport(web_terms, << >>, IntegratedTerms(web_terms, youtube_terms),
        GenerateTerminologyReport(analysis_date, web_terms, youtube_terms).top_terms)

YoutubeTermsAfterReport(analysis_date, web_terms, youtube_terms) ==
    ChannelAfterReport(youtube_terms, AllTerms(web_terms, [status |-> "skipped"]),
        IntegratedTerms(web_terms, youtube_terms),
        GenerateTerminologyReport(analysis_date, web_terms, youtube_terms).top_terms)

(***************************************************************************)
(* course_plan_parser.py: the research section of the brief                *)
(*                                                                         *)
(* A text is modelled by one record per line or block the code appends,    *)
(* in output order; the content of a source and the text of a transcript   *)
(* are modelled by their lengths, and an excerpt by the number of          *)
(* characters kept and whether the ellipsis is appended.                   *)
(***************************************************************************)
WebQuoteCap == 5
VideoQuoteCap == 3
WebPreviewLength == 500
VideoPreviewLength == 800
MustDefineCap == 10
QualityRecommendationCap == 3
TermRecommendationCap == 2

\* Python's None
None == [none |-> TRUE]

\* the truth value of a loaded document: None and {} are false
Truthy(d) == d # None /\ d # EmptyDict

\* text[:n] + "..." if len(text) > n else text
Preview(length, n) ==
    [chars |-> IF length > n THEN n ELSE length, ellipsis |-> length > n]

\* the lines of one source in format_web_research
WebSourceLines(i, source) ==
    << [kind |-> "web_source", i |-> i,
        title |-> Get(source, "title", "no_title"),
        url |-> Get(source, "url", "N/A"),
        character_count |-> Get(source, "character_count", 0)] >>
    \o (IF Get(source, "content_length", 0) > 0
        THEN << [kind |-> "web_excerpt", i |-> i,
                 preview |-> Preview(source.content_length, WebPreviewLength)] >>
        ELSE << >>)

RECURSIVE Flatten(_)
Flatten(lists) ==
    IF lists = << >> THEN << >> ELSE Head(lists) \o Flatten(Tail(lists))

\* variant: the notice counts all sources
FormatWebResearch_NoticeCountsAll(research_data) ==
    IF ~Truthy(research_data) \/ Get(research_data, "sources", << >>) = << >>
    THEN << >>
    ELSE LET sources == research_data.sources
             quoted == Take(sources, WebQuoteCap)
         IN  << [kind |-> "web_header",
                 total_sources |-> Get(research_data, "total_sources", 0)] >>
             \o Flatten([i \in 1..Len(quoted) |-> WebSourceLines(i, quoted[i])])
             \o (IF Len(sources) > WebQuoteCap
                 THEN << [kind |-> "web_omitted", n |-> Len(sources)] >>
                 ELSE << >>)

\* format_web_research; the empty string is the empty list of lines
FormatWebResearch(research_data) ==
    IF ~Truthy(research_data) \/ Get(research_data, "sources", << >>) = << >>
    THEN << >>
    ELSE LET sources == research_data.sources
             quoted == Take(sources, WebQuoteCap)
         IN  << [kind |-> "web_header",
                 total_sources |-> Get(research_data, "total_sources", 0)] >>
             \o Flatten([i \in 1..Len(quoted) |-> WebSourceLines(i, quoted[i])])
             \o (IF Len(sources) > WebQuoteCap
                 THEN << [kind |-> "web_omitted", n |-> Len(sources) - WebQuoteCap] >>
                 ELSE << >>)

\* the lines of one transcript in format_youtube_research
VideoLines(i, transcript) ==
    << [kind |-> "video", i |-> i,
        video_id |-> Get(transcript, "video_id", "N/A"),
        word_count |-> Get(transcript, "word_count", 0)] >>
    \o (IF Get(transcript, "text_length", 0) > 0
        THEN << [kind |-> "video_excerpt", i |-> i,
                 preview |-> Preview(transcript.text_length, VideoPreviewLength)] >>
        ELSE << >>)

\* format_youtube_research
FormatYoutubeResearch(research_data) ==
    IF ~Truthy(research_data) \/ Get(research_data, "transcriptions", << >>) = << >>
    THEN << >>
    ELSE LET transcriptions == research_data.transcriptions
             quoted == Take(transcriptions, VideoQuoteCap)
         IN  << [kind |-> "video_header",
                 successful_transcriptions |->
                     Get(research_data, "successful_transcriptions", 0)] >>
             \o Flatten([i \in 1..Len(quoted) |-> VideoLines(i, quoted[i])])
             \o (IF Len(transcriptions) > VideoQuoteCap
                 THEN << [kind |-> "video_omitted",
                          n |-> Len(transcriptions) - VideoQuoteCap] >>
                 ELSE << >>)

\* the quality part of format_quality_assurance
QualityLines(quality_report) ==
    LET summary == Get(quality_report, "integrated_summary", EmptyDict)
        recommendations ==
            Take(Get(quality_report, "quality_recommendations", << >>),
                 QualityRecommendationCap)
    IN  << [kind |-> "quality_label",
            overall_quality |-> Get(quality_report, "overall_quality", "unknown")],
           [kind |-> "quality_counts",
            total_data_points |-> Get(summary, "total_data_points", 0),
            credible_sources |-> Get(summary, "credible_sources", 0)] >>
        \o (IF recommendations # << >>
            THEN << [kind |-> "quality_notes", recommendations |-> recommendations] >>
            ELSE << >>)

\* the terminology part of format_quality_assurance
TerminologyLines(terminology_report) ==
    LET summary == Get(terminology_report, "terminology_summary", EmptyDict)
        categories == Get(summary, "categories", EmptyDict)
        phases == Get(summary, "learning_phases", EmptyDict)
        top_terms == Take(Get(terminology_report, "top_terms", << >>), MustDefineCap)
        recommendations ==
            Take(Get(terminology_report, "recommendations", << >>), TermRecommendationCap)
    IN  << [kind |-> "term_count",
            total_unique_terms |-> Get(summary, "total_unique_terms", 0)] >>
        \o (IF categories # EmptyDict
            THEN << [kind |-> "term_categories", counts |-> categories] >> ELSE << >>)
        \o (IF phases # EmptyDict
            THEN << [kind |-> "term_phases", counts |-> phases] >> ELSE << >>)
        \o (IF top_terms # << >>
            THEN << [kind |-> "must_define",
                     terms |-> [i \in 1..Len(top_terms) |-> top_terms[i].term]] >>
            ELSE << >>)
        \o (IF recommendations # << >>
            THEN << [kind |-> "term_notes", recommendations |-> recommendations] >>
            ELSE << >>)

\* format_quality_assurance
FormatQualityAssurance(quality_report, terminology_report) ==
    IF ~Truthy(quality_report) /\ ~Truthy(terminology_report)
    THEN << >>
    ELSE << [kind |-> "qa_header"] >>
         \o (IF Truthy(quality_report) THEN QualityLines(quality_report) ELSE << >>)
         \o (IF Truthy(terminology_report)
             THEN TerminologyLines(terminology_report) ELSE << >>)
         \o << [kind |-> "qa_end"] >>

\* research_section of format_as_canvas_and_narration_prompt
ResearchSection(web_research_data, youtube_research_data, quality_report, terminology_report) ==
    IF Truthy(web_research_data) \/ Truthy(youtube_research_data)
    THEN << [kind |-> "research_header"] >>
         \o (IF Truthy(web_research_data)
             THEN FormatWebResearch(web_research_data) ELSE << >>)
         \o (IF Truthy(youtube_research_data)
             THEN FormatYoutubeResearch(youtube_research_data) ELSE << >>)
         \o FormatQualityAssurance(quality_report, terminology_report)
         \o << [kind |-> "research_end"] >>
    ELSE << >>

(***************************************************************************)
(* State                                                                   *)
(*                                                                         *)
(* pc, args, web_file, youtube_file, saved and exit_status describe one    *)
(* run of a command line tool: the position in main, the parsed arguments  *)
(* (TRUE when the path was supplied), what the two paths hold, what        *)
(* save_report wrote and the exit status of the process (-1 while it       *)
(* runs).  The next four variables are the locals of the validator's main, *)
(* the four after them the locals of the analyzer's main.  The last four   *)
(* hold the argument and the result of a direct call of                    *)
(* _evaluate_overall_quality and of _evaluate_credibility.  brief_inputs   *)
(* holds the four documents given to the brief assembler and               *)
(* research_section the part of the brief it makes from them.              *)
(***************************************************************************)
VARIABLES pc, args, web_file, youtube_file, saved, exit_status,
          validation_date, web_validation, youtube_validation, report,
          analysis_date, web_terms, youtube_terms, terminology_report,
          summary_arg, quality_result, url_arg, credibility_result,
          brief_inputs, research_section

runVars == << pc, args, web_file, youtube_file, saved, exit_status >>
validatorVars == << validation_date, web_validation, youtube_validation, report >>
analyzerVars == << analysis_date, web_terms, youtube_terms, terminology_report >>
callVars == << summary_arg, quality_result, url_arg, credibility_result >>
briefVars == << brief_inputs, research_section >>
vars == << runVars, validatorVars, analyzerVars, callVars, briefVars >>

Unset == [status |-> "unset"]
NotRunning == -1
Dates == {"date1", "date2"}

ValidatorIdle ==
    /\ validation_date = "unset"
    /\ web_validation = Unset
    /\ youtube_validation = Unset
    /\ report = Unset

AnalyzerIdle ==
    /\ analysis_date = "unset"
    /\ web_terms = Unset
    /\ youtube_terms = Unset
    /\ terminology_report = Unset

CallsIdle ==
    /\ summary_arg = EmptyDict
    /\ quality_result = "unset"
    /\ url_arg = ""
    /\ credibility_result = "unset"

BriefIdle ==
    /\ brief_inputs = EmptyDict
    /\ research_section = << >>

(***************************************************************************)
(* Input documents of the validator                                        *)
(***************************************************************************)
WebRecordSet ==
    { [url |-> "https://ja.wikipedia.org/wiki/AI", content_length |-> 150,
       character_count |-> 150, data_points |-> 10],
      [url |-> "qiita.com/items/1", content_length |-> 0,
       character_count |-> 0, data_points |-> 0],
      [url |-> "https://example.com/post", content_length |-> 50,
       character_count |-> 150, data_points |-> 0],
      [url |-> "", content_length |-> 50,
       character_count |-> 0, data_points |-> 0] }

VideoRecordSet ==
    { [text_length |-> 200, word_count |-> 5000, total_duration |-> 600,
       data_points |-> 3],
      [text_length |-> 50, word_count |-> 150, total_duration |-> 120,
       data_points |-> 12],
      [text_length |-> 0, word_count |-> 0, total_duration |-> 0,
       data_points |-> 0] }

\* what a supplied path can hold: a file that cannot be opened or parsed, a
\* JSON array, a JSON object without the list, or an object with the list
BrokenFiles == { [kind |-> "unreadable"], [kind |-> "array"], [kind |-> "object"] }

WebFiles ==
    BrokenFiles \cup
    { [kind |-> "object", sources |-> s] : s \in SeqUpTo(WebRecordSet, MaxWebRecords) }

VideoFiles ==
    BrokenFiles \cup
    { [kind |-> "object", transcriptions |-> s] :
          s \in SeqUpTo(VideoRecordSet, MaxVideoRecords) }

(***************************************************************************)
(* main of course_quality_validator.py                                     *)
(***************************************************************************)
Init ==
    /\ pc = "parse_args"
    /\ args \in [web_research : BOOLEAN, youtube_research : BOOLEAN]
    /\ web_file \in (IF args.web_research THEN WebFiles ELSE {[kind |-> "absent"]})
    /\ youtube_file \in (IF args.youtube_research THEN VideoFiles ELSE {[kind |-> "absent"]})
    /\ saved = Unset
    /\ exit_status = NotRunning
    /\ BriefIdle
    /\ ValidatorIdle
    /\ AnalyzerIdle
    /\ CallsIdle

\* variant: the check that one path is given is missing
ParseArgs_NoCheck ==
    /\ pc = "parse_args"
    /\ pc' = "web"
    /\ \E d \in Dates : validation_date' = d
    /\ UNCHANGED exit_status
    /\ UNCHANGED << args, web_file, youtube_file, saved >>
    /\ UNCHANGED << web_validation, youtube_validation, report >>
    /\ UNCHANGED << analyzerVars, callVars, briefVars >>

\* variant: the check demands both paths
ParseArgs_RequireBoth ==
    /\ pc = "parse_args"
    /\ IF ~args.web_research \/ ~args.youtube_research
       THEN /\ pc' = "exited"
            /\ exit_status' = 2
            /\ UNCHANGED validation_date
       ELSE /\ pc' = "web"
            /\ \E d \in Dates : validation_date' = d
            /\ UNCHANGED exit_status
    /\ UNCHANGED << args, web_file, youtube_file, saved >>
    /\ UNCHANGED << web_validation, youtube_validation, report >>
    /\ UNCHANGED << analyzerVars, callVars, briefVars >>

\* parse_args, the check that one path is given, and the construction of the
\* validator; parser.error exits the process with status 2
ParseArgs ==
    /\ pc = "parse_args"
    /\ IF ~args.web_research /\ ~args.youtube_research
       THEN /\ pc' = "exited"
            /\ exit_status' = 2
            /\ UNCHANGED validation_date
       ELSE /\ pc' = "web"
            /\ \E d \in Dates : validation_date' = d
            /\ UNCHANGED exit_status
    /\ UNCHANGED << args, web_file, youtube_file, saved >>
    /\ UNCHANGED << web_validation, youtube_validation, report >>
    /\ UNCHANGED << analyzerVars, callVars, briefVars >>

\* open + json.load + validate inside try/except: every exception becomes
\* the status error
LoadFails(file) == file.kind \in {"unreadable", "array"}

LoadError(file) ==
    IF file.kind = "unreadable" THEN [status |-> "error", message |-> "load_failed"]
    ELSE [status |-> "error", message |-> "no_attribute_get"]

\* the try block of the web channel
LoadAndValidateWeb(file) ==
    IF LoadFails(file) THEN LoadError(file) ELSE ValidateWebResearch(file)

\* the try block of the video channel
LoadAndValidateYoutube(file) ==
    IF LoadFails(file) THEN LoadError(file) ELSE ValidateYoutubeResearch(file)

ValidateWeb ==
    /\ pc = "web"
    /\ web_validation' =
          IF args.web_research
          THEN LoadAndValidateWeb(web_file)
          ELSE [status |-> "skipped"]
    /\ pc' = "youtube"
    /\ UNCHANGED << args, web_file, youtube_file, saved, exit_status >>
    /\ UNCHANGED << validation_date, youtube_validation, report >>
    /\ UNCHANGED << analyzerVars, callVars, briefVars >>

\* variant: a failure of the web channel leaves the video channel unprocessed
ValidateYoutube_StopsAfterWebError ==
    /\ pc = "youtube"
    /\ youtube_validation' =
          IF args.youtube_research /\ web_validation.status # "error"
          THEN LoadAndValidateYoutube(youtube_file)
          ELSE [status |-> "skipped"]
    /\ pc' = "report"
    /\ UNCHANGED << args, web_file, youtube_file, saved, exit_status >>
    /\ UNCHANGED << validation_date, web_validation, report >>
    /\ UNCHANGED << analyzerVars, callVars, briefVars >>

ValidateYoutube ==
    /\ pc = "youtube"
    /\ youtube_validation' =
          IF args.youtube_research
          THEN LoadAndValidateYoutube(youtube_file)
          ELSE [status |-> "skipped"]
    /\ pc' = "report"
    /\ UNCHANGED << args, web_file, youtube_file, saved, exit_status >>
    /\ UNCHANGED << validation_date, web_validation, report >>
    /\ UNCHANGED << analyzerVars, callVars, briefVars >>

\* variant: the report is made as soon as the web channel is done
GenerateReport_BeforeVideo ==
    /\ pc \in {"youtube", "report"}
    /\ report' = GenerateQualityReport(validation_date, web_validation, youtube_validation)
    /\ pc' = "save"
    /\ UNCHANGED << args, web_file, youtube_file, saved, exit_status >>
    /\ UNCHANGED << validation_date, web_validation, youtube_validation >>
    /\ UNCHANGED << analyzerVars, callVars, briefVars >>

GenerateReport ==
    /\ pc = "report"
    /\ report' = GenerateQualityReport(validation_date, web_validation, youtube_validation)
    /\ pc' = "save"
    /\ UNCHANGED << args, web_file, youtube_file, saved, exit_status >>
    /\ UNCHANGED << validation_date, web_validation, youtube_validation >>
    /\ UNCHANGED << analyzerVars, callVars, briefVars >>

\* save_report: a failure to write is caught and only printed
SaveReport ==
    /\ pc = "save"
    /\ \E ok \in BOOLEAN :
          saved' = IF ok THEN [status |-> "written", report |-> report] ELSE saved
    /\ pc' = "print"
    /\ UNCHANGED << args, web_file, youtube_file, exit_status >>
    /\ UNCHANGED << validatorVars, analyzerVars, callVars, briefVars >>

\* print_report_summary and the normal end of main
PrintSummary ==
    /\ pc = "print"
    /\ pc' = "exited"
    /\ exit_status' = 0
    /\ UNCHANGED << args, web_file, youtube_file, saved >>
    /\ UNCHANGED << validatorVars, analyzerVars, callVars, briefVars >>

Next ==
    \/ ParseArgs
    \/ ValidateWeb
    \/ ValidateYoutube
    \/ GenerateReport
    \/ SaveReport
    \/ PrintSummary

Spec == Init /\ [][Next]_vars

(***************************************************************************)
(* The same run when the output path already holds the report of an        *)
(* earlier run, made by another validator instance from other documents    *)
(***************************************************************************)
EarlierWebFiles ==
    { [kind |-> "unreadable"],
      [kind |-> "object",
       sources |-> << [url |-> "", content_length |-> 50,
                       character_count |-> 0, data_points |-> 0] >>] }

EarlierVideoFiles ==
    { [kind |-> "object", transcriptions |-> << >>],
      [kind |-> "object",
       transcriptions |-> << [text_length |-> 200, word_count |-> 5000,
                              total_duration |-> 600, data_points |-> 3] >>] }

EarlierReports ==
    { GenerateQualityReport(d, LoadAndValidateWeb(w),
                               LoadAndValidateYoutube(y)) :
          d \in Dates, w \in EarlierWebFiles, y \in EarlierVideoFiles }

InitTwoReports ==
    /\ pc = "parse_args"
    /\ args \in [web_research : BOOLEAN, youtube_research : BOOLEAN]
    /\ web_file \in (IF args.web_research THEN WebFiles ELSE {[kind |-> "absent"]})
    /\ youtube_file \in (IF args.youtube_research THEN VideoFiles ELSE {[kind |-> "absent"]})
    /\ saved \in {[status |-> "written", report |-> r] : r \in EarlierReports}
    /\ exit_status = NotRunning
    /\ BriefIdle
    /\ ValidatorIdle
    /\ AnalyzerIdle
    /\ CallsIdle

SpecTwoReports == InitTwoReports /\ [][Next]_vars

(***************************************************************************)
(* Direct calls of the two pure methods                                    *)
(***************************************************************************)
MaxSources == 6
MaxDataPoints == 23
MaxCredible == 4
WordVolumes == {0, 4999, 5000, 9999, 10000, 12000}

SummaryArgs ==
    { EmptyDict } \cup
    { [ total_information_sources |-> n,
        total_data_points |-> d,
        credible_sources |-> c,
        total_content_volume |-> [web_characters |-> 0, youtube_words |-> w] ] :
      n \in 0..MaxSources, d \in 0..MaxDataPoints, c \in 0..MaxCredible, w \in WordVolumes }

InitScore ==
    /\ pc = "call"
    /\ args = [web_research |-> FALSE, youtube_research |-> FALSE]
    /\ web_file = [kind |-> "absent"]
    /\ youtube_file = [kind |-> "absent"]
    /\ saved = Unset
    /\ exit_status = NotRunning
    /\ BriefIdle
    /\ ValidatorIdle
    /\ AnalyzerIdle
    /\ summary_arg \in SummaryArgs
    /\ quality_result = "unset"
    /\ url_arg = ""
    /\ credibility_result = "unset"

CallEvaluateOverallQuality ==
    /\ pc = "call"
    /\ quality_result' = EvaluateOverallQuality(summary_arg)
    /\ pc' = "returned"
    /\ UNCHANGED << args, web_file, youtube_file, saved, exit_status >>
    /\ UNCHANGED << validatorVars, analyzerVars, briefVars >>
    /\ UNCHANGED << summary_arg, url_arg, credibility_result >>

NextScore == CallEvaluateOverallQuality

SpecScore == InitScore /\ [][NextScore]_vars

\* URLs assembled from the listed domains, other hosts and upper case forms
UrlSchemes == {"", "https://", "HTTP://www."}

UrlHosts ==
    Range(high_credibility) \cup Range(medium_credibility)
    \cup {"", "example.com", "WIKIPEDIA.ORG", "Qiita.Com", "city.GOV"}

UrlArgs == {""} \cup {p \o a \o "/" \o b : p \in UrlSchemes, a \in UrlHosts, b \in UrlHosts}

InitCred ==
    /\ pc = "call"
    /\ args = [web_research |-> FALSE, youtube_research |-> FALSE]
    /\ web_file = [kind |-> "absent"]
    /\ youtube_file = [kind |-> "absent"]
    /\ saved = Unset
    /\ exit_status = NotRunning
    /\ BriefIdle
    /\ ValidatorIdle
    /\ AnalyzerIdle
    /\ summary_arg = EmptyDict
    /\ quality_result = "unset"
    /\ url_arg \in UrlArgs
    /\ credibility_result = "unset"

CallEvaluateCredibility ==
    /\ pc = "call"
    /\ credibility_result' = EvaluateCredibility(url_arg)
    /\ pc' = "returned"
    /\ UNCHANGED << args, web_file, youtube_file, saved, exit_status >>
    /\ UNCHANGED << validatorVars, analyzerVars, briefVars >>
    /\ UNCHANGED << summary_arg, quality_result, url_arg >>

NextCred == CallEvaluateCredibility

SpecCred == InitCred /\ [][NextCred]_vars

(***************************************************************************)
(* Input documents of the analyzer                                         *)
(*                                                                         *)
(* Every token is a string the tokenizer can return: a run of ASCII        *)
(* letters, digits and katakana, or a run of ideographs, never a mixture.  *)
(* The web document has two sources, the first repeating a term of the     *)
(* rich set and the second a reference term; the transcript repeats the    *)
(* first term again.  In the mixed layout the first source opens with one  *)
(* occurrence of the reference term, so that the reference term is the     *)
(* first to occur although most of its occurrences come last.              *)
(***************************************************************************)
AlnumFragments == {"AI", "chatgpt", "Api", Deeta, Kosuto, Sukiru, "xy"}
AlnumSuffixes == {"", Kosuto, Sukiru}
KanjiFragments == {Gyoumu, Gakushuu, Jissen, Kihon, Houhou, Katsuyou, Nyuumon, Kouza}
KanjiSuffixes == {"", Houhou, Gakushuu, Nyuumon}

RichTerms ==
    { a \o b : a \in AlnumFragments, b \in AlnumSuffixes }
    \cup { a \o b : a \in KanjiFragments, b \in KanjiSuffixes }

ReferenceTerms == {"The", "ChatGPT", Gyoumu \o Kouritsu}

Frequencies == {1, 2, 5, 12}
ReferenceFrequencies == {2, 5}
VideoFrequencies == {0, 1, 2, 3, 5}

Repeat(word, n) == [i \in 1..n |-> word]

WebTextFiles(t1, t2) ==
    BrokenFiles \cup
    { [kind |-> "object", sources |-> << Repeat(t1, f1), Repeat(t2, f2) >>] :
          f1 \in Frequencies, f2 \in ReferenceFrequencies }
    \cup
    { [kind |-> "object",
       sources |-> << << t2 >> \o Repeat(t1, f1), Repeat(t2, f2 - 1) >>] :
          f1 \in Frequencies, f2 \in ReferenceFrequencies }

VideoTextFiles(t1) ==
    BrokenFiles \cup
    { [kind |-> "object", transcriptions |-> << Repeat(t1, f3) >>] : f3 \in VideoFrequencies }

(***************************************************************************)
(* main of course_terminology_analyzer.py                                  *)
(***************************************************************************)
InitAnalyzer ==
    /\ pc = "parse_args"
    /\ args \in [web_research : BOOLEAN, youtube_research : BOOLEAN]
    /\ \E t1 \in RichTerms, t2 \in ReferenceTerms :
          /\ web_file \in (IF args.web_research THEN WebTextFiles(t1, t2)
                           ELSE {[kind |-> "absent"]})
          /\ youtube_file \in (IF args.youtube_research THEN VideoTextFiles(t1)
                               ELSE {[kind |-> "absent"]})
    /\ saved = Unset
    /\ exit_status = NotRunning
    /\ BriefIdle
    /\ ValidatorIdle
    /\ AnalyzerIdle
    /\ CallsIdle

\* parse_args, the check that one path is given, and the construction of the
\* analyzer; parser.error exits the process with status 2
AnalyzerParseArgs ==
    /\ pc = "parse_args"
    /\ IF ~args.web_research /\ ~args.youtube_research
       THEN /\ pc' = "exited"
            /\ exit_status' = 2
            /\ UNCHANGED analysis_date
       ELSE /\ pc' = "web"
            /\ \E d \in Dates : analysis_date' = d
            /\ UNCHANGED exit_status
    /\ UNCHANGED << args, web_file, youtube_file, saved >>
    /\ UNCHANGED << web_terms, youtube_terms, terminology_report >>
    /\ UNCHANGED << validatorVars, callVars, briefVars >>

ExtractWeb ==
    /\ pc = "web"
    /\ web_terms' =
          IF args.web_research
          THEN (IF LoadFails(web_file) THEN LoadError(web_file)
                ELSE ExtractTerminologyFromWeb(web_file))
          ELSE [status |-> "skipped"]
    /\ pc' = "youtube"
    /\ UNCHANGED << args, web_file, youtube_file, saved, exit_status >>
    /\ UNCHANGED << analysis_date, youtube_terms, terminology_report >>
    /\ UNCHANGED << validatorVars, callVars, briefVars >>

ExtractYoutube ==
    /\ pc = "youtube"
    /\ youtube_terms' =
          IF args.youtube_research
          THEN (IF LoadFails(youtube_file) THEN LoadError(youtube_file)
                ELSE ExtractTerminologyFromYoutube(youtube_file))
          ELSE [status |-> "skipped"]
    /\ pc' = "report"
    /\ UNCHANGED << args, web_file, youtube_file, saved, exit_status >>
    /\ UNCHANGED << analysis_date, web_terms, terminology_report >>
    /\ UNCHANGED << validatorVars, callVars, briefVars >>

GenerateTermReport ==
    /\ pc = "report"
    /\ terminology_report' =
          GenerateTerminologyReport(analysis_date, web_terms, youtube_terms)
    /\ web_terms' = WebTermsAfterReport(analysis_date, web_terms, youtube_terms)
    /\ youtube_terms' = YoutubeTermsAfterReport(analysis_date, web_terms, youtube_terms)
    /\ pc' = "save"
    /\ UNCHANGED << args, web_file, youtube_file, saved, exit_status >>
    /\ UNCHANGED analysis_date
    /\ UNCHANGED << validatorVars, callVars, briefVars >>

\* save_report: a failure to write is caught and only printed
SaveTermReport ==
    /\ pc = "save"
    /\ \E ok \in BOOLEAN :
          saved' = IF ok THEN [status |-> "written", report |-> terminology_report]
                   ELSE saved
    /\ pc' = "print"
    /\ UNCHANGED << args, web_file, youtube_file, exit_status >>
    /\ UNCHANGED << validatorVars, analyzerVars, callVars, briefVars >>

\* print_report_summary and the normal end of main
PrintTermSummary ==
    /\ pc = "print"
    /\ pc' = "exited"
    /\ exit_status' = 0
    /\ UNCHANGED << args, web_file, youtube_file, saved >>
    /\ UNCHANGED << validatorVars, analyzerVars, callVars, briefVars >>

NextAnalyzer ==
    \/ AnalyzerParseArgs
    \/ ExtractWeb
    \/ ExtractYoutube
    \/ GenerateTermReport
    \/ SaveTermReport
    \/ PrintTermSummary

SpecAnalyzer == InitAnalyzer /\ [][NextAnalyzer]_vars

(***************************************************************************)
(* main of course_terminology_analyzer.py on long documents                *)
(*                                                                         *)
(* The documents hold more distinct terms than the lists keep.  Term i is  *)
(* the token "wd" followed by the digits of i; the web text opens with a   *)
(* token that occurs once, then repeats each of its terms 2 to 4 times;    *)
(* the transcript repeats each of its terms 2 or 3 times, and its terms    *)
(* start at the first or near the last of the web terms.                   *)
(***************************************************************************)
MaxLongTerms == 52

LongTerm(i) == "wd" \o ToString(i)

\* the tokens of a text that repeats the terms first .. first + count - 1
LongText(first, count, spread) ==
    JoinWords([k \in 1..count |->
                  Repeat(LongTerm(first + k - 1), 2 + ((first + k - 1) % spread))])

LongWebFiles ==
    { [kind |-> "object", sources |-> << << "once" >>, LongText(1, n, 3) >>] :
          n \in {TopTermsCap - 1, TopTermsCap, TopTermsCap + 1,
                 PerChannelCap, PerChannelCap + 1, MaxLongTerms} }

LongVideoFiles ==
    { [kind |-> "object", transcriptions |-> << LongText(first, n, 2) >>] :
          first \in {1, MaxLongTerms - 1}, n \in {2, TopTermsCap, PerChannelCap + 1} }

InitLongTexts ==
    /\ pc = "parse_args"
    /\ args \in [web_research : BOOLEAN, youtube_research : BOOLEAN]
    /\ web_file \in (IF args.web_research THEN LongWebFiles ELSE {[kind |-> "absent"]})
    /\ youtube_file \in (IF args.youtube_research THEN LongVideoFiles
                         ELSE {[kind |-> "absent"]})
    /\ saved = Unset
    /\ exit_status = NotRunning
    /\ BriefIdle
    /\ ValidatorIdle
    /\ AnalyzerIdle
    /\ CallsIdle

SpecLongTexts == InitLongTexts /\ [][NextAnalyzer]_vars

(***************************************************************************)
(* A direct call of format_as_canvas_and_narration_prompt                  *)
(*                                                                         *)
(* The research documents hold up to MaxBriefSources sources and           *)
(* MaxBriefVideos transcripts, one more than the number quoted at least;   *)
(* the terminology reports are made by generate_terminology_report from    *)
(* extraction results of several lengths around the number of terms        *)
(* listed, the quality reports by generate_quality_report.                 *)
(***************************************************************************)
MaxBriefSources == 6
MaxBriefVideos == 4

BriefSourceSet ==
    { [title |-> "A", url |-> "https://a.example/1", character_count |-> 600,
       content_length |-> 600],
      [title |-> "B", url |-> "https://b.example/2", character_count |-> 120,
       content_length |-> 120] }

BriefVideoSet ==
    { [video_id |-> "v1", word_count |-> 900, text_length |-> 900],
      [video_id |-> "v2", word_count |-> 0, text_length |-> 0] }

BriefWebDocuments ==
    { None, EmptyDict, [total_sources |-> 0, sources |-> << >>] }
    \cup { [total_sources |-> Len(s), sources |-> s] :
              s \in SeqUpTo(BriefSourceSet, MaxBriefSources) \ {<< >>} }

BriefVideoDocuments ==
    { None, [successful_transcriptions |-> 0, transcriptions |-> << >>] }
    \cup { [successful_transcriptions |-> Len(s), transcriptions |-> s] :
              s \in SeqUpTo(BriefVideoSet, MaxBriefVideos) \ {<< >>} }

\* terms an extraction can return, each with the frequency it is given here
BriefTerms ==
    << "AI", "ChatGPT", Gyoumu \o Kouritsu, Deeta, "Api", Gakushuu \o Houhou,
       Kihon, Sukiru, "chatgpt", Kosuto, Jissen, Katsuyou >>

\* the result of an extraction that found the first n of these terms
BriefExtraction(n) ==
    [ status |-> "extracted",
      source_type |-> "web",
      terms |-> [i \in 1..n |->
                    [ term |-> BriefTerms[i],
                      frequency |-> 2 * (Len(BriefTerms) + 1 - i),
                      category |-> CategorizeTerm(BriefTerms[i]),
                      learning_phase |-> "None" ]],
      total_unique_terms |-> n ]

BriefTermCounts == {0, 1, 9, 10, 11, 12}

BriefTerminologyReports ==
    { None }
    \cup { GenerateTerminologyReport("date1", BriefExtraction(n), [status |-> "skipped"]) :
              n \in BriefTermCounts }

BriefQualityReports ==
    { None,
      GenerateQualityReport("date1",
          ValidateWebResearch([sources |->
              << [url |-> "https://ja.wikipedia.org/wiki/AI", content_length |-> 150,
                  character_count |-> 150, data_points |-> 10] >>]),
          [status |-> "skipped"]) }

InitBrief ==
    /\ pc = "call"
    /\ args = [web_research |-> FALSE, youtube_research |-> FALSE]
    /\ web_file = [kind |-> "absent"]
    /\ youtube_file = [kind |-> "absent"]
    /\ saved = Unset
    /\ exit_status = NotRunning
    /\ ValidatorIdle
    /\ AnalyzerIdle
    /\ CallsIdle
    /\ brief_inputs \in [ web_research_data : BriefWebDocuments,
                          youtube_research_data : BriefVideoDocuments,
                          quality_report : BriefQualityReports,
                          terminology_report : BriefTerminologyReports ]
    /\ research_section = << >>

CallFormatBrief ==
    /\ pc = "call"
    /\ research_section' =
          ResearchSection(brief_inputs.web_research_data,
                          brief_inputs.youtube_research_data,
                          brief_inputs.quality_report,
                          brief_inputs.terminology_report)
    /\ pc' = "returned"
    /\ UNCHANGED << args, web_file, youtube_file, saved, exit_status >>
    /\ UNCHANGED << validatorVars, analyzerVars, callVars >>
    /\ UNCHANGED brief_inputs

NextBrief == CallFormatBrief

SpecBrief == InitBrief /\ [][NextBrief]_vars

(***************************************************************************)
(* generate_terminology_report called on its own                           *)
(*                                                                         *)
(* The web argument is an extraction result holding some technical, some   *)
(* business, some introduction-phase, some application-phase and some      *)
(* other terms, each list as _extract_terms returns it: distinct terms in  *)
(* descending frequency, categorised, no phase yet.  The video argument is *)
(* a skipped channel or an extraction of one application-phase term.       *)
(***************************************************************************)
TermPools ==
    [ technical |-> << "AI", "ChatGPT", Deeta >>,
      business |-> << Gyoumu \o Kouritsu, Kosuto, Uriage >>,
      introduction |-> << Kihon, Sukiru >>,
      application |-> << Katsuyou, Houhou >>,
      other |-> << "xy" >> ]

\* an extraction result listing these terms, most frequent first
ExtractionOf(source_type, listed) ==
    [ status |-> "extracted",
      source_type |-> source_type,
      terms |-> [i \in 1..Len(listed) |->
                    [ term |-> listed[i],
                      frequency |-> 2 * (Len(listed) + 1 - i),
                      category |-> CategorizeTerm(listed[i]),
                      learning_phase |-> "None" ]],
      total_unique_terms |-> Len(listed) ]

PooledWebTerms ==
    { ExtractionOf("web", Take(TermPools.other, e) \o Take(TermPools.technical, a)
                          \o Take(TermPools.introduction, c)
                          \o Take(TermPools.business, b)
                          \o Take(TermPools.application, d)) :
        a \in 0..Len(TermPools.technical), b \in 0..Len(TermPools.business),
        c \in 0..Len(TermPools.introduction), d \in 0..Len(TermPools.application),
        e \in 0..Len(TermPools.other) }

PooledVideoTerms ==
    { [status |-> "skipped"], ExtractionOf("youtube", << Jirei >>) }

InitTermReport ==
    /\ pc = "call"
    /\ args = [web_research |-> FALSE, youtube_research |-> FALSE]
    /\ web_file = [kind |-> "absent"]
    /\ youtube_file = [kind |-> "absent"]
    /\ saved = Unset
    /\ exit_status = NotRunning
    /\ BriefIdle
    /\ ValidatorIdle
    /\ CallsIdle
    /\ analysis_date \in Dates
    /\ web_terms \in PooledWebTerms
    /\ youtube_terms \in PooledVideoTerms
    /\ terminology_report = Unset

CallGenerateTerminologyReport ==
    /\ pc = "call"
    /\ terminology_report' =
          GenerateTerminologyReport(analysis_date, web_terms, youtube_terms)
    /\ web_terms' = WebTermsAfterReport(analysis_date, web_terms, youtube_terms)
    /\ youtube_terms' = YoutubeTermsAfterReport(analysis_date, web_terms, youtube_terms)
    /\ pc' = "returned"
    /\ UNCHANGED << args, web_file, youtube_file, saved, exit_status >>
    /\ UNCHANGED analysis_date
    /\ UNCHANGED << validatorVars, callVars, briefVars >>

NextTermReport == CallGenerateTerminologyReport

SpecTermReport == InitTermReport /\ [][NextTermReport]_vars

(***************************************************************************)
(* Properties of the quality validator                                     *)
(***************************************************************************)
C1_Factor(value, two, one) == IF value >= two THEN 2 ELSE IF value >= one THEN 1 ELSE 0

C1_Score ==
    C1_Factor(Get(summary_arg, "total_information_sources", 0), 5, 3)
    + C1_Factor(Get(summary_arg, "total_data_points", 0), 20, 10)
    + C1_Factor(Get(summary_arg, "credible_sources", 0), 3, 1)
    + C1_Factor(Get(Get(summary_arg, "total_content_volume", EmptyDict),
                    "youtube_words", 0), 10000, 5000)

C1_Scenario ==
    [ total_information_sources |-> 5, total_data_points |-> 22, credible_sources |-> 3,
      total_content_volume |-> [web_characters |-> 0, youtube_words |-> 0] ]

\* C1: for every integrated summary the verdict returned by
\* _evaluate_overall_quality is the one of the four-factor score (2, 1 or 0
\* points per factor; excellent from 7, good from 5, acceptable from 3,
\* needs_improvement below); 5 sources, 22 data points, 3 credible sources and
\* no video words score 6 and give good.
C1_OverallQuality ==
    pc = "returned" =>
        /\ C1_Score \in 0..8
        /\ C1_Score >= 7 => quality_result = "excellent"
        /\ C1_Score \in 5..6 => quality_result = "good"
        /\ C1_Score \in 3..4 => quality_result = "acceptable"
        /\ C1_Score <= 2 => quality_result = "needs_improvement"
        /\ summary_arg = C1_Scenario => C1_Score = 6 /\ quality_result = "good"

C1_ScenarioReturnsGood ==
    pc = "returned" /\ summary_arg = C1_Scenario /\ quality_result = "good"

\* C5: the overall_quality of a report is a function of its
\* integrated_summary alone: evaluating the stored summary again returns the
\* stored verdict, and the report of another run (other validator instance,
\* date and records) with an equal summary carries an equal verdict.
C5_QualityFunctionOfSummary ==
    report # Unset =>
        /\ report.overall_quality = EvaluateOverallQuality(report.integrated_summary)
        /\ saved.report.integrated_summary = report.integrated_summary
              => saved.report.overall_quality = report.overall_quality

C5_EqualSummaryOtherRun ==
    /\ pc = "save"
    /\ saved.report.validation_date # report.validation_date
    /\ saved.report.web_research # report.web_research
    /\ saved.report.integrated_summary = report.integrated_summary
    /\ report.integrated_summary.total_information_sources > 1

C8_InList(domains) == \E i \in 1..Len(domains) : Contains(Lower(url_arg), domains[i])

\* C8: the credibility of a URL is unknown when the URL is empty, otherwise
\* high when its lower case form contains a high-credibility domain, otherwise
\* medium when it contains a medium-credibility domain, otherwise low; a URL
\* containing a domain of each list is high.
C8_Credibility ==
    pc = "returned" =>
        /\ url_arg = "" => credibility_result = "unknown"
        /\ url_arg # "" /\ C8_InList(high_credibility) => credibility_result = "high"
        /\ url_arg # "" /\ ~C8_InList(high_credibility) /\ C8_InList(medium_credibility)
              => credibility_result = "medium"
        /\ url_arg # "" /\ ~C8_InList(high_credibility) /\ ~C8_InList(medium_credibility)
              => credibility_result = "low"

C8_HighBeatsMedium ==
    /\ pc = "returned"
    /\ C8_InList(high_credibility)
    /\ C8_InList(medium_credibility)
    /\ credibility_result = "high"

\* C9: in a validated web result valid_urls, sources_with_content and
\* credible_sources are each at most total_sources and total_data_points is
\* not negative; in a validated video result videos_with_transcripts is at
\* most total_videos and total_data_points is not negative.
C9_SummaryCounts ==
    /\ web_validation.status = "validated" =>
          /\ web_validation.summary.valid_urls <= web_validation.summary.total_sources
          /\ web_validation.summary.sources_with_content
                <= web_validation.summary.total_sources
          /\ web_validation.summary.credible_sources <= web_validation.summary.total_sources
          /\ web_validation.summary.total_data_points >= 0
    /\ youtube_validation.status = "validated" =>
          /\ youtube_validation.summary.videos_with_transcripts
                <= youtube_validation.summary.total_videos
          /\ youtube_validation.summary.total_data_points >= 0

C9_BothValidated ==
    /\ web_validation.status = "validated"
    /\ youtube_validation.status = "validated"
    /\ web_validation.summary.credible_sources > web_validation.summary.sources_with_content
    /\ web_validation.summary.valid_urls < web_validation.summary.total_sources
    /\ youtube_validation.summary.videos_with_transcripts
          < youtube_validation.summary.total_videos

C10_Usable == web_validation.status = "validated" \/ youtube_validation.status = "validated"

\* C10 as stated: the validator's main exits with status 0 when a report was
\* made from at least one usable collection and with a nonzero status whenever
\* neither collection is usable, also when both paths are given but both fail
\* to load or are empty.
C10_NonzeroWhenNothingUsable ==
    pc = "exited" => (exit_status = 0 <=> C10_Usable)

\* C10, amended: the validator's main exits with a nonzero status (2, no
\* report made) exactly when neither path is supplied; whenever a path is
\* supplied a report is made and the exit status is 0, also when every
\* supplied document fails to load or is empty.
C10_ExitStatus ==
    /\ pc # "exited" => exit_status = NotRunning
    /\ pc = "exited" =>
          /\ exit_status = 0 <=> (args.web_research \/ args.youtube_research)
          /\ exit_status = 0 => report # Unset
          /\ exit_status # 0 => exit_status = 2 /\ report = Unset

C10_ExitZeroNothingUsable ==
    /\ pc = "exited"
    /\ exit_status = 0
    /\ web_validation.status = "error"
    /\ youtube_validation.status \in {"error", "no_data"}
    /\ report # Unset

\* generate_quality_report has returned
C11_ReportMade == report # Unset

\* the document was loaded and holds no record of the channel
C11_NoRecords(file, key) == file.kind = "object" /\ Get(file, key, << >>) = << >>

\* the document cannot be opened or parsed, or is not a JSON object
C11_Broken(file) == file.kind \in {"unreadable", "array"}

C11_ErrorWithMessage(validation) ==
    /\ validation.status = "error"
    /\ "message" \in DOMAIN validation

\* C11 as stated: in a generated quality report a channel whose collection is
\* absent (not supplied, or supplied with no records) has status no_data, and
\* a channel whose document is unreadable or malformed has status error with
\* the failure message.
C11_AbsentIsNoData ==
    C11_ReportMade =>
        /\ (~args.web_research \/ C11_NoRecords(web_file, "sources"))
              => report.web_research.status = "no_data"
        /\ (~args.youtube_research \/ C11_NoRecords(youtube_file, "transcriptions"))
              => report.youtube_research.status = "no_data"
        /\ (args.web_research /\ C11_Broken(web_file))
              => C11_ErrorWithMessage(report.web_research)
        /\ (args.youtube_research /\ C11_Broken(youtube_file))
              => C11_ErrorWithMessage(report.youtube_research)

\* C11, amended: in a generated quality report a channel whose path is not
\* supplied has status skipped, a channel whose document was loaded and holds
\* no records has status no_data, and a channel whose document is unreadable
\* or malformed has status error with the failure message; none of these is
\* raised to the caller: main makes the report and ends with status 0.
C11_ChannelStatus ==
    /\ C11_ReportMade =>
        /\ ~args.web_research => report.web_research.status = "skipped"
        /\ ~args.youtube_research => report.youtube_research.status = "skipped"
        /\ (args.web_research /\ C11_NoRecords(web_file, "sources"))
              => report.web_research.status = "no_data"
        /\ (args.youtube_research /\ C11_NoRecords(youtube_file, "transcriptions"))
              => report.youtube_research.status = "no_data"
        /\ (args.web_research /\ C11_Broken(web_file))
              => C11_ErrorWithMessage(report.web_research)
        /\ (args.youtube_research /\ C11_Broken(youtube_file))
              => C11_ErrorWithMessage(report.youtube_research)
    /\ (pc = "exited" /\ (args.web_research \/ args.youtube_research))
          => C11_ReportMade /\ exit_status = 0

C11_SkippedAndError ==
    /\ pc = "exited"
    /\ C11_ReportMade
    /\ ~args.web_research
    /\ report.web_research.status = "skipped"
    /\ args.youtube_research /\ C11_Broken(youtube_file)
    /\ C11_ErrorWithMessage(report.youtube_research)

\* both channels' blocks of main are behind
C12_ChannelsDone == pc \in {"report", "save", "print", "exited"}

\* C12: in every run of the validator where both paths are supplied, each
\* channel's result is the one its own document gives, whatever the outcome of
\* the other channel: a web failure leaves a video document with records
\* validated, a video failure leaves the web result as it was, and the report
\* that is made carries both channels' results with their statuses.
C12_OtherChannelProcessed ==
    (args.web_research /\ args.youtube_research) =>
        /\ C12_ChannelsDone =>
              /\ web_validation = LoadAndValidateWeb(web_file)
              /\ youtube_validation = LoadAndValidateYoutube(youtube_file)
              /\ youtube_validation.status \in {"validated", "no_data", "error"}
              /\ (youtube_file.kind = "object"
                  /\ Get(youtube_file, "transcriptions", << >>) # << >>)
                    => youtube_validation.status = "validated"
        /\ C11_ReportMade =>
              /\ report.web_research = web_validation
              /\ report.youtube_research = youtube_validation
              /\ "status" \in DOMAIN report.web_research
              /\ "status" \in DOMAIN report.youtube_research
        /\ pc = "exited" => C11_ReportMade

C12_VideoValidatedAfterWebError ==
    /\ pc = "exited"
    /\ args.web_research /\ args.youtube_research
    /\ C11_Broken(web_file)
    /\ report.web_research.status = "error"
    /\ report.youtube_research.status = "validated"
    /\ report.youtube_research.summary.total_videos = 2

\* both documents were loaded and neither holds a record
C13_BothEmpty ==
    /\ args.web_research /\ C11_NoRecords(web_file, "sources")
    /\ args.youtube_research /\ C11_NoRecords(youtube_file, "transcriptions")

\* C13: when both channels have no records, both validation results have
\* status no_data, the integrated summary has 0 sources, 0 data points, 0
\* credible sources and 0 video words, and overall_quality is
\* needs_improvement.
C13_NoRecordsNeedsImprovement ==
    (C11_ReportMade /\ C13_BothEmpty) =>
        /\ report.web_research.status = "no_data"
        /\ report.youtube_research.status = "no_data"
        /\ report.integrated_summary.total_information_sources = 0
        /\ report.integrated_summary.total_data_points = 0
        /\ report.integrated_summary.credible_sources = 0
        /\ report.integrated_summary.total_content_volume.youtube_words = 0
        /\ report.overall_quality = "needs_improvement"

C13_BothEmptyReported ==
    /\ pc = "exited"
    /\ C13_BothEmpty
    /\ "sources" \in DOMAIN web_file
    /\ "transcriptions" \notin DOMAIN youtube_file
    /\ report.overall_quality = "needs_improvement"
    /\ report.web_research.status = "no_data"

C14_WebRules ==
    {"web_content_shortfall", "web_few_data_points", "web_low_credibility", "web_ok"}

C14_VideoRules ==
    {"youtube_transcript_shortfall", "youtube_few_words", "youtube_short_duration",
     "youtube_ok"}

\* the group of an entry: 1 lead, 2 web channel, 3 video channel, 4 closing,
\* 0 anything else
C14_Group(entry) ==
    IF entry.rule = "lead" THEN 1
    ELSE IF entry.rule \in C14_WebRules THEN 2
    ELSE IF entry.rule \in C14_VideoRules THEN 3
    ELSE IF entry.rule = "closing" THEN 4
    ELSE 0

C14_IsWeb(entry) == C14_Group(entry) = 2
C14_IsVideo(entry) == C14_Group(entry) = 3
C14_IsClosing(entry) == C14_Group(entry) = 4

\* C14: the combined quality_recommendations list starts with exactly one
\* lead sentence, the one of the report's quality tier; then come the web
\* channel's recommendations, then the video channel's, then, exactly when
\* the total of data points is positive, one closing sentence that quotes the
\* total; there is no other entry and no entry of a later group precedes one
\* of an earlier group.
C14_RecommendationOrder ==
    C11_ReportMade =>
        LET recs == report.quality_recommendations
            total == report.integrated_summary.total_data_points
        IN  /\ Len(recs) >= 1
            /\ recs[1] = [rule |-> "lead", tier |-> report.overall_quality]
            /\ \A i \in 2..Len(recs) : C14_Group(recs[i]) \in {2, 3, 4}
            /\ \A i, j \in 1..Len(recs) :
                  i < j => C14_Group(recs[i]) <= C14_Group(recs[j])
            /\ SelectSeq(recs, C14_IsWeb) =
                  (IF report.web_research.status = "validated"
                   THEN report.web_research.recommendations ELSE << >>)
            /\ SelectSeq(recs, C14_IsVideo) =
                  (IF report.youtube_research.status = "validated"
                   THEN report.youtube_research.recommendations ELSE << >>)
            /\ SelectSeq(recs, C14_IsClosing) =
                  (IF total > 0 THEN << [rule |-> "closing", n |-> total] >> ELSE << >>)

C14_AllFourGroups ==
    /\ C11_ReportMade
    /\ report.web_research.status = "validated"
    /\ report.youtube_research.status = "validated"
    /\ Len(report.web_research.recommendations) >= 2
    /\ Len(report.youtube_research.recommendations) >= 2
    /\ report.integrated_summary.total_data_points > 0
    /\ Len(report.quality_recommendations) >= 6

C21_NeitherPath == ~args.web_research /\ ~args.youtube_research

\* C21: when neither input path is supplied the command line entry point
\* fails before any processing starts: the run goes from the argument check
\* straight to the exit with status 2, no validator or analyzer is made, no
\* channel is loaded or processed, and no report is generated or saved.
C21_FailsBeforeProcessing ==
    C21_NeitherPath =>
        /\ pc \in {"parse_args", "exited"}
        /\ pc = "exited" => exit_status = 2
        /\ validation_date = "unset" /\ analysis_date = "unset"
        /\ web_validation = Unset /\ youtube_validation = Unset
        /\ web_terms = Unset /\ youtube_terms = Unset
        /\ report = Unset /\ terminology_report = Unset
        /\ saved = Unset

C21_ExitedWithoutPaths ==
    /\ C21_NeitherPath
    /\ pc = "exited"
    /\ exit_status = 2
    /\ report = Unset
    /\ saved = Unset

\* C23: each validated channel's recommendations are the messages of its own
\* three rules that fire, in the rules' order, or the single positive
\* confirmation when none fires.  The web rules are: content shortfall (fewer
\* sources with content than sources), few data points (less than 10), low
\* credibility (credible sources are less than half of the sources).  The video
\* rules are: transcript shortfall (fewer videos with transcripts than videos),
\* few words (less than 5000), short duration (less than 10 minutes).
C23_WebFires ==
    LET summary == web_validation.summary
    IN  << summary.sources_with_content < summary.total_sources,
           summary.total_data_points < 10,
           2 * summary.credible_sources < summary.total_sources >>

C23_VideoFires ==
    LET summary == youtube_validation.summary
    IN  << summary.videos_with_transcripts < summary.total_videos,
           summary.total_words < 5000,
           summary.total_duration_minutes < 10 >>

\* the video rules as the web channel has them: content, data points, credibility
C23_VideoFiresAsWeb ==
    LET summary == youtube_validation.summary
    IN  << summary.videos_with_transcripts < summary.total_videos,
           summary.total_data_points < 10,
           2 * Get(summary, "credible_sources", 0) < summary.total_videos >>

C23_WebRuleNames ==
    << "web_content_shortfall", "web_few_data_points", "web_low_credibility" >>

C23_VideoRuleNames ==
    << "youtube_transcript_shortfall", "youtube_few_words", "youtube_short_duration" >>

\* the names of the rules that fire, in the rules' order
C23_Fired(names, fires) ==
    LET kept == {k \in 1..Len(names) : fires[k]}
        position(k) == Cardinality({j \in kept : j <= k})
    IN  [i \in 1..Cardinality(kept) |-> names[CHOOSE k \in kept : position(k) = i]]

C23_RulesOf(recommendations) ==
    [i \in 1..Len(recommendations) |-> recommendations[i].rule]

C23_Follows(validation, names, fires, confirmation) ==
    validation.status = "validated" =>
        C23_RulesOf(validation.recommendations) =
            IF C23_Fired(names, fires) = << >> THEN << confirmation >>
            ELSE C23_Fired(names, fires)

C23_ChannelRules ==
    /\ C23_Follows(web_validation, C23_WebRuleNames, C23_WebFires, "web_ok")
    /\ C23_Follows(youtube_validation, C23_VideoRuleNames, C23_VideoFires, "youtube_ok")

\* as claimed: the video list follows the rules of the web list, a few-words or
\* short-duration message standing for the second or third of them
C23_SameRulesForBothChannels ==
    /\ C23_Follows(web_validation, C23_WebRuleNames, C23_WebFires, "web_ok")
    /\ C23_Follows(youtube_validation, C23_VideoRuleNames, C23_VideoFiresAsWeb,
                   "youtube_ok")

\* both channels are validated, the web list is the confirmation alone and the
\* video list warns of few words and of a short duration
C23_ConfirmedAndWarned ==
    /\ web_validation.status = "validated"
    /\ youtube_validation.status = "validated"
    /\ C23_RulesOf(web_validation.recommendations) = << "web_ok" >>
    /\ C23_RulesOf(youtube_validation.recommendations) =
           << "youtube_few_words", "youtube_short_duration" >>

\* C24: a channel that is not validated (no_data, error or skipped) adds
\* nothing to the report: every count of the integrated summary is the
\* validated channels' share alone, and the combined recommendations hold no
\* entry of the channel's rules
C24_LeftOut(validation) == validation.status \in {"no_data", "error", "skipped"}

\* what each channel adds to the counts, nothing when it is left out
C24_WebShare ==
    IF C24_LeftOut(web_validation)
    THEN [sources |-> 0, data_points |-> 0, credible |-> 0, characters |-> 0]
    ELSE [ sources |-> web_validation.summary.total_sources,
           data_points |-> web_validation.summary.total_data_points,
           credible |-> web_validation.summary.credible_sources,
           characters |->
               SumSeq([i \in 1..Len(web_validation.validations) |->
                          web_validation.validations[i].checks.content_length]) ]

C24_VideoShare ==
    IF C24_LeftOut(youtube_validation)
    THEN [sources |-> 0, data_points |-> 0, words |-> 0]
    ELSE [ sources |-> youtube_validation.summary.total_videos,
           data_points |-> youtube_validation.summary.total_data_points,
           words |-> youtube_validation.summary.total_words ]

C24_LeftOutChannelAddsNothing ==
    C11_ReportMade =>
        /\ report.integrated_summary =
              [ total_information_sources |-> C24_WebShare.sources + C24_VideoShare.sources,
                total_data_points |->
                    C24_WebShare.data_points + C24_VideoShare.data_points,
                credible_sources |-> C24_WebShare.credible,
                total_content_volume |->
                  [ web_characters |-> C24_WebShare.characters,
                    youtube_words |-> C24_VideoShare.words ] ]
        /\ C24_LeftOut(web_validation) =>
              \A i \in 1..Len(report.quality_recommendations) :
                  ~C14_IsWeb(report.quality_recommendations[i])
        /\ C24_LeftOut(youtube_validation) =>
              \A i \in 1..Len(report.quality_recommendations) :
                  ~C14_IsVideo(report.quality_recommendations[i])

\* the web document is broken, the videos are validated and counted
C24_ErrorChannelLeftOut ==
    /\ C11_ReportMade
    /\ web_validation.status = "error"
    /\ youtube_validation.status = "validated"
    /\ report.integrated_summary.total_information_sources = MaxVideoRecords
    /\ report.integrated_summary.total_data_points > 0

\* C26: in a run of either command line the report is generated at most once
\* and written at most once, the written report is the generated one, and
\* both happen only when both channels have a final status (validated or
\* extracted, no_data, error, skipped)
C26_Final == {"validated", "extracted", "no_data", "error", "skipped"}

C26_ChannelsFinal ==
    IF validation_date # "unset"
    THEN web_validation.status \in C26_Final /\ youtube_validation.status \in C26_Final
    ELSE web_terms.status \in C26_Final /\ youtube_terms.status \in C26_Final

C26_Generated == IF validation_date # "unset" THEN report ELSE terminology_report

C26_ReportStep ==
    /\ (report' # report \/ terminology_report' # terminology_report) =>
          /\ report = Unset /\ terminology_report = Unset
          /\ saved = Unset
          /\ C26_ChannelsFinal
          /\ UNCHANGED << web_validation, youtube_validation, web_terms, youtube_terms >>
    /\ saved' # saved =>
          /\ saved = Unset
          /\ C26_Generated # Unset
          /\ saved'.report = C26_Generated
          /\ C26_ChannelsFinal
          /\ UNCHANGED << validatorVars, analyzerVars >>
    /\ (report # Unset \/ terminology_report # Unset) =>
          UNCHANGED << web_validation, youtube_validation, web_terms, youtube_terms >>

C26_ReportOnceAfterChannels ==
    /\ []((report # Unset \/ terminology_report # Unset \/ saved # Unset)
            => C26_ChannelsFinal)
    /\ [][C26_ReportStep]_vars

\* the run has ended with the report written, one channel validated and the
\* other without data
C26_WrittenAfterBothChannels ==
    /\ pc = "exited"
    /\ saved # Unset
    /\ saved.report = report
    /\ web_validation.status = "validated"
    /\ youtube_validation.status = "no_data"
\* the score of the report's integrated summary, factor by factor
C28_Score ==
    C1_Factor(report.integrated_summary.total_information_sources, 5, 3)
    + C1_Factor(report.integrated_summary.total_data_points, 20, 10)
    + C1_Factor(report.integrated_summary.credible_sources, 3, 1)
    + C1_Factor(report.integrated_summary.total_content_volume.youtube_words,
                10000, 5000)

\* C28: a report with the verdict excellent has both channels validated.  When
\* a channel is not validated the score is at most 6 and the verdict at most
\* good: without the web channel no credible source is counted, without the
\* video channel no video words are counted
C28_ExcellentNeedsBothChannels ==
    C11_ReportMade =>
        /\ web_validation.status # "validated" =>
              /\ report.integrated_summary.credible_sources = 0
              /\ C28_Score <= 6
              /\ report.overall_quality \in {"good", "acceptable", "needs_improvement"}
        /\ youtube_validation.status # "validated" =>
              /\ report.integrated_summary.total_content_volume.youtube_words = 0
              /\ C28_Score <= 6
              /\ report.overall_quality \in {"good", "acceptable", "needs_improvement"}
        /\ report.overall_quality = "excellent" =>
              /\ web_validation.status = "validated"
              /\ youtube_validation.status = "validated"
              /\ C28_Score >= 7

\* the web channel alone, with credible sources and many data points, is good
C28_GoodFromWebAlone ==
    /\ C11_ReportMade
    /\ web_validation.status = "validated"
    /\ youtube_validation.status # "validated"
    /\ report.integrated_summary.credible_sources >= 3
    /\ report.integrated_summary.total_data_points >= 20
    /\ report.overall_quality = "good"

\* both channels together reach excellent
C28_ExcellentFromBoth ==
    /\ C11_ReportMade
    /\ report.overall_quality = "excellent"
\* _evaluate_overall_quality called on its own: a summary without credible
\* sources or without video words is not excellent, whatever its other counts
C28_NotExcellentWithoutOneFactor ==
    (/\ quality_result # "unset"
     /\ \/ Get(summary_arg, "credible_sources", 0) = 0
        \/ Get(Get(summary_arg, "total_content_volume", EmptyDict),
               "youtube_words", 0) = 0)
        => quality_result \in {"good", "acceptable", "needs_improvement"}

\* a summary that lacks one factor and has the full points of the other three
C28_SixPoints ==
    /\ quality_result = "good"
    /\ Get(summary_arg, "credible_sources", 0) = 0
    /\ C1_Score = 6
\* the tier of a score, threshold by threshold
C30_Tier(score) ==
    CASE score >= 7 -> "excellent"
      [] score \in 5..6 -> "good"
      [] score \in 3..4 -> "acceptable"
      [] OTHER -> "needs_improvement"

\* C30: in a generated quality report the recommendations are not empty and
\* open with the lead sentence of the tier stored in overall_quality, which is
\* the tier of the score of the report's integrated summary and never unknown
C30_LeadMatchesVerdict ==
    C11_ReportMade =>
        /\ Len(report.quality_recommendations) >= 1
        /\ report.quality_recommendations[1] =
              [rule |-> "lead", tier |-> report.overall_quality]
        /\ report.overall_quality = C30_Tier(C28_Score)
        /\ report.overall_quality # "unknown"

\* a report of the acceptable tier whose lead is followed by other entries
C30_AcceptableLead ==
    /\ C11_ReportMade
    /\ report.overall_quality = "acceptable"
    /\ report.quality_recommendations[1].tier = "acceptable"
    /\ Len(report.quality_recommendations) > 1
(***************************************************************************)
(* Properties of the brief assembler                                       *)
(***************************************************************************)
\* format_as_canvas_and_narration_prompt has returned
BriefReturned == pc = "returned" /\ brief_inputs # EmptyDict

\* the records of a channel that the assembler is given
C15_Records(document, key) ==
    IF Truthy(document) THEN Get(document, key, << >>) ELSE << >>

C15_IsWebSource(line) == line.kind = "web_source"
C15_IsWebOmitted(line) == line.kind = "web_omitted"
C15_IsVideo(line) == line.kind = "video"
C15_IsVideoOmitted(line) == line.kind = "video_omitted"

\* position of the last line of research_section of one of the kinds, 0 if none
C15_LastOf(kinds) ==
    IF \E i \in 1..Len(research_section) : research_section[i].kind \in kinds
    THEN CHOOSE i \in 1..Len(research_section) :
            /\ research_section[i].kind \in kinds
            /\ \A j \in (i + 1)..Len(research_section) :
                  research_section[j].kind \notin kinds
    ELSE 0

\* C15: the brief quotes the first 5 web sources at most and the first 3
\* video transcripts at most, in input order; when a channel has more records
\* than its cap exactly one omitted notice follows the quoted records and
\* states the record count minus the cap, and when it has no more records
\* than the cap there is no omitted notice.
C15_QuoteCaps ==
    BriefReturned =>
        LET sources == C15_Records(brief_inputs.web_research_data, "sources")
            transcriptions ==
                C15_Records(brief_inputs.youtube_research_data, "transcriptions")
            quotedSources == SelectSeq(research_section, C15_IsWebSource)
            quotedVideos == SelectSeq(research_section, C15_IsVideo)
            webNotices == SelectSeq(research_section, C15_IsWebOmitted)
            videoNotices == SelectSeq(research_section, C15_IsVideoOmitted)
        IN  /\ Len(quotedSources) = (IF Len(sources) < 5 THEN Len(sources) ELSE 5)
            /\ \A k \in 1..Len(quotedSources) :
                  /\ quotedSources[k].i = k
                  /\ quotedSources[k].title = sources[k].title
                  /\ quotedSources[k].url = sources[k].url
            /\ Len(quotedVideos) =
                  (IF Len(transcriptions) < 3 THEN Len(transcriptions) ELSE 3)
            /\ \A k \in 1..Len(quotedVideos) :
                  /\ quotedVideos[k].i = k
                  /\ quotedVideos[k].video_id = transcriptions[k].video_id
            /\ webNotices =
                  (IF Len(sources) > 5
                   THEN << [kind |-> "web_omitted", n |-> Len(sources) - 5] >>
                   ELSE << >>)
            /\ videoNotices =
                  (IF Len(transcriptions) > 3
                   THEN << [kind |-> "video_omitted", n |-> Len(transcriptions) - 3] >>
                   ELSE << >>)
            /\ Len(sources) > 5 =>
                  C15_LastOf({"web_omitted"}) = C15_LastOf({"web_source", "web_excerpt"}) + 1
            /\ Len(transcriptions) > 3 =>
                  C15_LastOf({"video_omitted"}) = C15_LastOf({"video", "video_excerpt"}) + 1

C15_BothNotices ==
    /\ BriefReturned
    /\ Len(C15_Records(brief_inputs.web_research_data, "sources")) = 6
    /\ Len(C15_Records(brief_inputs.youtube_research_data, "transcriptions")) = 4
    /\ \E i \in 1..Len(research_section) :
          research_section[i] = [kind |-> "web_omitted", n |-> 1]
    /\ \E i \in 1..Len(research_section) :
          research_section[i] = [kind |-> "video_omitted", n |-> 1]
    /\ brief_inputs.web_research_data.sources[1]
          # brief_inputs.web_research_data.sources[2]

C16_IsMustDefine(line) == line.kind = "must_define"

\* the list of terms to define that the brief must hold for a report: the
\* terms of the first 10 entries of top_terms, in report order
C16_Expected(given_report) ==
    LET top == Take(Get(given_report, "top_terms", << >>), 10)
    IN  IF top = << >> THEN << >>
        ELSE << [kind |-> "must_define", terms |-> [i \in 1..Len(top) |-> top[i].term]] >>

\* C16: whenever a terminology report is given to the brief assembler, the
\* brief lists exactly the top 10 terms of that report, in report order, as the
\* terms that must be explicitly defined.
C16_TopTenListed ==
    (BriefReturned /\ Truthy(brief_inputs.terminology_report)) =>
        SelectSeq(research_section, C16_IsMustDefine)
            = C16_Expected(brief_inputs.terminology_report)

\* what holds of the code: the list is made whenever a terminology report is
\* given together with a web or a video research document
C16_TopTenListedWithResearch ==
    (BriefReturned /\ Truthy(brief_inputs.terminology_report)
        /\ (Truthy(brief_inputs.web_research_data)
            \/ Truthy(brief_inputs.youtube_research_data))) =>
        SelectSeq(research_section, C16_IsMustDefine)
            = C16_Expected(brief_inputs.terminology_report)

\* a report of 12 terms given without any research document: nothing of it
\* reaches the brief
C16_ReportDropped ==
    /\ BriefReturned
    /\ Truthy(brief_inputs.terminology_report)
    /\ Len(brief_inputs.terminology_report.top_terms) = 12
    /\ ~Truthy(brief_inputs.web_research_data)
    /\ ~Truthy(brief_inputs.youtube_research_data)
    /\ research_section = << >>

\* the document with records i and j of its list exchanged
C17_Exchanged(file, key, i, j) ==
    [file EXCEPT ![key] = [@ EXCEPT ![i] = file[key][j], ![j] = file[key][i]]]

\* the documents that differ from this one by the exchange of two records;
\* every permutation of the list is a chain of such exchanges, and every
\* document of the chain is a document main can be given
C17_Rearranged(file, key) ==
    IF key \in DOMAIN file
    THEN {C17_Exchanged(file, key, i, j) : i, j \in 1..Len(file[key])}
    ELSE {file}

\* the result main gives a channel for a document
C17_WebResult(file) ==
    IF args.web_research THEN LoadAndValidateWeb(file) ELSE [status |-> "skipped"]

C17_VideoResult(file) ==
    IF args.youtube_research THEN LoadAndValidateYoutube(file) ELSE [status |-> "skipped"]

C17_SameSummaryAndVerdict(other) ==
    /\ other.integrated_summary = report.integrated_summary
    /\ other.overall_quality = report.overall_quality

\* C17: permuting the records of the web list or of the video list leaves
\* every count of the integrated summary (total information sources, total
\* data points, credible sources, web characters, video words) and the
\* verdict unchanged.
C17_PermutationInvariant ==
    pc = "save" =>
        /\ \A w \in C17_Rearranged(web_file, "sources") :
              C17_SameSummaryAndVerdict(
                  GenerateQualityReport(validation_date, C17_WebResult(w),
                                        youtube_validation))
        /\ \A y \in C17_Rearranged(youtube_file, "transcriptions") :
              C17_SameSummaryAndVerdict(
                  GenerateQualityReport(validation_date, web_validation,
                                        C17_VideoResult(y)))

C17_DistinctRecordsPermuted ==
    /\ pc = "save"
    /\ report.web_research.status = "validated"
    /\ report.youtube_research.status = "validated"
    /\ Len(web_file.sources) = 3
    /\ web_file.sources[1].content_length # web_file.sources[2].content_length
    /\ web_file.sources[2].data_points # web_file.sources[3].data_points
    /\ Len(youtube_file.transcriptions) = 2
    /\ youtube_file.transcriptions[1] # youtube_file.transcriptions[2]

(***************************************************************************)
(* Properties of the terminology analyzer                                  *)
(***************************************************************************)
\* the token list of each channel's text, empty when the channel has no text
WebWords ==
    IF args.web_research /\ web_file.kind = "object"
    THEN JoinWords(Get(web_file, "sources", << >>)) ELSE << >>

VideoWords ==
    IF args.youtube_research /\ youtube_file.kind = "object"
    THEN JoinWords(Get(youtube_file, "transcriptions", << >>)) ELSE << >>

AllWords == Range(WebWords) \cup Range(VideoWords)

MergedFrequency(term) == Occurrences(WebWords, term) + Occurrences(VideoWords, term)

TopTerms == terminology_report.top_terms

\* generate_terminology_report has just returned
ReportReturned == pc = "save"

InTopTerms(term) == \E i \in 1..Len(TopTerms) : TopTerms[i].term = term

\* position of the first entry of a list that has the given value
FirstPosition(list, value) ==
    CHOOSE i \in 1..Len(list) : list[i] = value /\ \A j \in 1..(i - 1) : list[j] # value

TermsOf(entries) == [i \in 1..Len(entries) |-> entries[i].term]

ChannelTerms(result) == Get(result, "terms", << >>)

\* C2 as stated: a term is in top_terms if and only if its merged frequency,
\* the sum of its occurrence counts in the web text and in the video text, is
\* at least 2.
C2_InTopTermsIffMergedFrequency ==
    ReportReturned =>
        \A t \in AllWords : InTopTerms(t) <=> MergedFrequency(t) >= 2

\* C2, amended: a term is in top_terms only if it is not a stopword in lower
\* case and occurs at least twice in the web text or at least twice in the
\* video text (so its merged frequency is at least 2); when the texts hold at
\* most 30 distinct tokens every such term is in top_terms.  A term that
\* reaches 2 only by one occurrence in each channel, or a stopword, is absent.
C2_TopTermsMembership ==
    ReportReturned =>
        /\ \A i \in 1..Len(TopTerms) :
              /\ TopTerms[i].term \in AllWords
              /\ Lower(TopTerms[i].term) \notin stopwords
              /\ \/ Occurrences(WebWords, TopTerms[i].term) >= 2
                 \/ Occurrences(VideoWords, TopTerms[i].term) >= 2
              /\ MergedFrequency(TopTerms[i].term) >= 2
        /\ Cardinality(AllWords) <= TopTermsCap =>
              \A t \in AllWords :
                  (/\ Lower(t) \notin stopwords
                   /\ \/ Occurrences(WebWords, t) >= 2
                      \/ Occurrences(VideoWords, t) >= 2)
                  => InTopTerms(t)

C2_OnceInEachChannel ==
    /\ ReportReturned
    /\ Len(TopTerms) > 0
    /\ \E t \in AllWords :
          /\ Occurrences(WebWords, t) = 1
          /\ Occurrences(VideoWords, t) = 1
          /\ Lower(t) \notin stopwords
          /\ ~InTopTerms(t)

TermFrequencyPairs(entries) ==
    [i \in 1..Len(entries) |-> << entries[i].term, entries[i].frequency >>]

\* the top_terms of the report made from the two channel results exchanged
SwappedTopTerms ==
    GenerateTerminologyReport(analysis_date, youtube_terms, web_terms).top_terms

\* C3 as stated: the report of (A, B) and the report of (B, A) have the same
\* top_terms, the same terms in the same order with the same summed
\* frequencies.
C3_MergeCommutative ==
    ReportReturned =>
        TermFrequencyPairs(TopTerms) = TermFrequencyPairs(SwappedTopTerms)

\* C3, amended: the report of (A, B) and the report of (B, A) have top_terms
\* with the same sequence of frequencies and, when no more than 30 distinct
\* terms are merged, the same set of (term, summed frequency) entries; the
\* order of the terms is the same except among terms of equal frequency, which
\* follow the order of the channels.
C3_MergeCommutativeUpToTies ==
    ReportReturned =>
        LET swapped == SwappedTopTerms
            swappedTerms == TermsOf(swapped)
        IN  /\ [i \in 1..Len(TopTerms) |-> TopTerms[i].frequency]
                  = [i \in 1..Len(swapped) |-> swapped[i].frequency]
            /\ terminology_report.terminology_summary.total_unique_terms <= TopTermsCap =>
                  Range(TermFrequencyPairs(TopTerms)) = Range(TermFrequencyPairs(swapped))
            /\ \A i, j \in 1..Len(TopTerms) :
                  (i < j /\ TopTerms[i].frequency > TopTerms[j].frequency
                         /\ TopTerms[i].term \in Range(swappedTerms)
                         /\ TopTerms[j].term \in Range(swappedTerms))
                  => FirstPosition(swappedTerms, TopTerms[i].term)
                        < FirstPosition(swappedTerms, TopTerms[j].term)

C3_SwapChangesTieOrder ==
    /\ ReportReturned
    /\ ChannelTerms(web_terms) # << >>
    /\ ChannelTerms(youtube_terms) # << >>
    /\ TermFrequencyPairs(TopTerms) # TermFrequencyPairs(SwappedTopTerms)
    /\ \E i \in 1..Len(TopTerms) : Len(TopTerms[i].sources) = 2

\* entries in non-increasing frequency order, equal frequencies in the order
\* of first occurrence in `encounter`
C4_Ordered(entries, encounter) ==
    \A i, j \in 1..Len(entries) :
        i < j =>
            /\ entries[i].frequency >= entries[j].frequency
            /\ entries[i].frequency = entries[j].frequency =>
                  FirstPosition(encounter, entries[i].term)
                      < FirstPosition(encounter, entries[j].term)

\* C4: every per-channel term list and every top_terms list is in
\* non-increasing frequency order, and entries of equal frequency keep the
\* order in which they were first met: first occurrence in the text for a
\* channel list; web terms before video terms, each in channel order, for the
\* merged list.
C4_StableDescendingOrder ==
    /\ pc = "youtube" /\ web_terms.status = "extracted"
          => C4_Ordered(web_terms.terms, WebWords)
    /\ pc = "report" /\ youtube_terms.status = "extracted"
          => C4_Ordered(youtube_terms.terms, VideoWords)
    /\ ReportReturned =>
          C4_Ordered(TopTerms, TermsOf(AllTerms(web_terms, youtube_terms)))

C4_TieAcrossChannels ==
    /\ ReportReturned
    /\ Len(TopTerms) = 2
    /\ TopTerms[1].frequency = TopTerms[2].frequency
    /\ TopTerms[1].term \in Range(TermsOf(ChannelTerms(web_terms)))
    /\ TopTerms[2].term \notin Range(TermsOf(ChannelTerms(web_terms)))
    /\ TopTerms[2].term = WebWords[1]

IntroductionMarkers == {Kihon, Gaiyou, Nyuumon}
ApplicationMarkers == {Houhou, Tsukaikata, Katsuyou, Jissen, Jirei}

HasMarker(term, markers) == \E m \in markers : Contains(term, m)

\* C6: every merged term has the phase of the first rule that applies:
\* introduction when its category is learning or it contains an introduction
\* marker, else application when it contains an application marker, else
\* understanding; so both kinds of marker give introduction, a learning term
\* with an application marker is introduction, and a general term with only
\* an application marker is application.
C6_PhaseFirstRuleWins ==
    ReportReturned =>
        \A i \in 1..Len(TopTerms) :
            LET e == TopTerms[i]
                intro == e.category = "learning" \/ HasMarker(e.term, IntroductionMarkers)
                app == HasMarker(e.term, ApplicationMarkers)
            IN  /\ intro => e.learning_phase = "introduction"
                /\ ~intro /\ app => e.learning_phase = "application"
                /\ ~intro /\ ~app => e.learning_phase = "understanding"
                /\ HasMarker(e.term, IntroductionMarkers) /\ app
                      => e.learning_phase = "introduction"
                /\ e.category = "learning" /\ app => e.learning_phase = "introduction"
                /\ e.category = "general" /\ app /\ ~HasMarker(e.term, IntroductionMarkers)
                      => e.learning_phase = "application"

C6_BothMarkersIntroduction ==
    /\ ReportReturned
    /\ \E i \in 1..Len(TopTerms) :
          /\ HasMarker(TopTerms[i].term, IntroductionMarkers)
          /\ HasMarker(TopTerms[i].term, ApplicationMarkers)
          /\ TopTerms[i].category # "learning"
          /\ TopTerms[i].learning_phase = "introduction"
    /\ \E i \in 1..Len(TopTerms) : TopTerms[i].learning_phase = "understanding"

C7_Category(term) ==
    IF MatchesAny(tech_folded, term) THEN 1
    ELSE IF MatchesAny(business_folded, term) THEN 2
    ELSE IF MatchesAny(learning_folded, term) THEN 3
    ELSE 4

C7_CategoryNames == << "technical", "business", "learning", "general" >>

C7_Categorised(entries) ==
    \A i \in 1..Len(entries) :
        LET e == entries[i]
        IN  /\ MatchesAny(tech_folded, e.term) => e.category = "technical"
            /\ ~MatchesAny(tech_folded, e.term) /\ MatchesAny(business_folded, e.term)
                  => e.category = "business"
            /\ e.category = C7_CategoryNames[C7_Category(e.term)]

\* C7: the category of a term is the first that matches in the order
\* technical, business, learning, general (general when none matches), and
\* the rank of a term does not depend on its category: an entry of larger
\* frequency always precedes an entry of smaller frequency.
C7_FirstMatchCategory ==
    /\ pc = "youtube" => C7_Categorised(ChannelTerms(web_terms))
    /\ pc = "report" => C7_Categorised(ChannelTerms(youtube_terms))
    /\ ReportReturned =>
          /\ C7_Categorised(TopTerms)
          /\ \A i, j \in 1..Len(TopTerms) :
                TopTerms[i].frequency > TopTerms[j].frequency => i < j

C7_TechnicalAndBusinessRankedFirst ==
    /\ ReportReturned
    /\ Len(TopTerms) = 2
    /\ MatchesAny(tech_folded, TopTerms[1].term)
    /\ MatchesAny(business_folded, TopTerms[1].term)
    /\ TopTerms[1].category = "technical"
    /\ TopTerms[1].frequency = 12
    /\ TopTerms[2].frequency = 5
    /\ TopTerms[2].category = "business"

\* the entries of every ranked output made so far: each channel's extracted
\* list and the report's top_terms
C18_RankedOutputs ==
    << ChannelTerms(web_terms), ChannelTerms(youtube_terms),
       Get(terminology_report, "top_terms", << >>) >>

\* C18: every term of a ranked output (each per-channel extracted list and
\* the report's top_terms) has frequency at least 2 and is not a stopword
\* when lowercased.
C18_RankedTermsFiltered ==
    \A k \in 1..Len(C18_RankedOutputs) :
        \A i \in 1..Len(C18_RankedOutputs[k]) :
            /\ C18_RankedOutputs[k][i].frequency >= 2
            /\ Lower(C18_RankedOutputs[k][i].term) \notin stopwords

C18_StopwordAndSingleDropped ==
    /\ ReportReturned
    /\ \E w \in Range(WebWords) :
          /\ Lower(w) \in stopwords
          /\ w \notin stopwords
          /\ Occurrences(WebWords, w) >= 2
    /\ \E w \in Range(VideoWords) : Occurrences(VideoWords, w) = 1
    /\ Len(TopTerms) = 1
    /\ TopTerms[1].frequency = 2

\* the extracted list of a channel that takes part in the merge
C19_Contributed(result) ==
    IF Get(result, "status", "none") = "extracted" THEN ChannelTerms(result) ELSE << >>

\* the sum of the frequencies of the entries of a list that carry the term
C19_FrequencyIn(entries, term) ==
    SumSeq([i \in 1..Len(entries) |->
               IF entries[i].term = term THEN entries[i].frequency ELSE 0])

\* C19: after the merge each distinct term string is in the merged list at
\* most once, and its frequency is the sum of the frequencies the term has in
\* the per-channel lists that contribute; strings are matched exactly, with
\* regard to case.
C19_MergedOnceWithSummedFrequency ==
    ReportReturned =>
        LET web == C19_Contributed(web_terms)
            video == C19_Contributed(youtube_terms)
        IN  /\ \A i, j \in 1..Len(TopTerms) :
                  i # j => TopTerms[i].term # TopTerms[j].term
            /\ \A i \in 1..Len(TopTerms) :
                  TopTerms[i].frequency =
                      C19_FrequencyIn(web, TopTerms[i].term)
                      + C19_FrequencyIn(video, TopTerms[i].term)
            /\ Range(TermsOf(TopTerms)) = Range(TermsOf(web)) \cup Range(TermsOf(video))

C19_SummedAndCaseKeptApart ==
    /\ ReportReturned
    /\ Len(TopTerms) = 2
    /\ Lower(TopTerms[1].term) = Lower(TopTerms[2].term)
    /\ \E i \in 1..2 :
          /\ C19_FrequencyIn(C19_Contributed(web_terms), TopTerms[i].term) >= 2
          /\ C19_FrequencyIn(C19_Contributed(youtube_terms), TopTerms[i].term) >= 2
          /\ TopTerms[i].frequency = 7

\* the tags of the channels whose extracted list holds the term, web first
C20_ChannelTags(term) ==
    (IF term \in Range(TermsOf(C19_Contributed(web_terms)))
     THEN << web_terms.source_type >> ELSE << >>)
    \o
    (IF term \in Range(TermsOf(C19_Contributed(youtube_terms)))
     THEN << youtube_terms.source_type >> ELSE << >>)

\* C20: the sources field of every merged term is the list, duplicates kept,
\* of the channel tags (web, youtube) of exactly the channels whose extracted
\* list contributed the term.
C20_SourcesAreChannelTags ==
    ReportReturned =>
        \A i \in 1..Len(TopTerms) :
            TopTerms[i].sources = C20_ChannelTags(TopTerms[i].term)

\* what holds of the code: sources has one entry for each contributing
\* channel, and every entry is the default tag unknown, because the tag is
\* looked up in the term entry, which has no source_type
C20_SourcesAreUnknown ==
    ReportReturned =>
        \A i \in 1..Len(TopTerms) :
            /\ Len(TopTerms[i].sources) = Len(C20_ChannelTags(TopTerms[i].term))
            /\ \A k \in 1..Len(TopTerms[i].sources) : TopTerms[i].sources[k] = "unknown"

C20_BothChannelsTaggedUnknown ==
    /\ ReportReturned
    /\ web_terms.status = "extracted" /\ web_terms.source_type = "web"
    /\ youtube_terms.status = "extracted" /\ youtube_terms.source_type = "youtube"
    /\ \E i \in 1..Len(TopTerms) :
          /\ C20_ChannelTags(TopTerms[i].term) = << "web", "youtube" >>
          /\ TopTerms[i].sources = << "unknown", "unknown" >>

\* C22: the recommendations over the top list are the messages of the rules
\* that fire, in the order many technical (technical terms are more than half
\* of the list), many business (business terms are more than half), few
\* introduction (introduction-phase terms are less than a fifth), few
\* application (application-phase terms are less than a fifth); the positive
\* confirmation stands in their place exactly when none of the four fires; the
\* last entry always names the first five terms of the list
C22_Count(field, value) ==
    Cardinality({i \in 1..Len(TopTerms) : TopTerms[i][field] = value})

C22_Fires ==
    [ many_technical |-> 2 * C22_Count("category", "technical") > Len(TopTerms),
      many_business |-> 2 * C22_Count("category", "business") > Len(TopTerms),
      few_introduction |->
          5 * C22_Count("learning_phase", "introduction") < Len(TopTerms),
      few_application |->
          5 * C22_Count("learning_phase", "application") < Len(TopTerms) ]

C22_RuleOrder ==
    << "many_technical", "many_business", "few_introduction", "few_application" >>

C22_Rank(rule) == CHOOSE k \in 1..Len(C22_RuleOrder) : C22_RuleOrder[k] = rule

C22_RecommendationRules ==
    terminology_report # Unset =>
        LET recs == terminology_report.recommendations
            body == SubSeq(recs, 1, Len(recs) - 1)
            closing == recs[Len(recs)]
            times(rule) == Cardinality({i \in 1..Len(body) : body[i].rule = rule})
            none == \A k \in 1..Len(C22_RuleOrder) : ~C22_Fires[C22_RuleOrder[k]]
        IN  /\ Len(recs) >= 2
            /\ closing.rule = "top5"
            /\ closing.terms = [i \in 1..Len(Take(TopTerms, 5)) |-> TopTerms[i].term]
            /\ \A i \in 1..Len(body) :
                  body[i].rule \in Range(C22_RuleOrder) \cup {"balanced"}
            /\ \A k \in 1..Len(C22_RuleOrder) :
                  times(C22_RuleOrder[k]) = IF C22_Fires[C22_RuleOrder[k]] THEN 1 ELSE 0
            /\ times("balanced") = IF none THEN 1 ELSE 0
            /\ \A i, j \in 1..Len(body) :
                  (i < j /\ body[i].rule # "balanced" /\ body[j].rule # "balanced")
                      => C22_Rank(body[i].rule) < C22_Rank(body[j].rule)

\* a list of five terms, one of them of the introduction phase and one of the
\* application phase, is confirmed as balanced
C22_BalancedAtBoundary ==
    /\ pc = "returned"
    /\ terminology_report # Unset
    /\ Len(TopTerms) = 5
    /\ C22_Count("learning_phase", "introduction") = 1
    /\ C22_Count("learning_phase", "application") = 1
    /\ terminology_report.recommendations[1].rule = "balanced"

\* three rules fire together
C22_ThreeRulesFire ==
    /\ pc = "returned"
    /\ terminology_report # Unset
    /\ Len(terminology_report.recommendations) = 4

\* the words of a text that survive the filters of _extract_terms
C25_Survivors(words) ==
    {w \in Range(words) : Lower(w) \notin stopwords /\ Occurrences(words, w) >= 2}

\* the entries are the first `cap` of the terms of `encounter` in descending
\* frequency, equal frequencies in the order of `encounter`: all of them when
\* there are no more than `cap`, and otherwise no term left out comes before
\* a kept one
C25_FirstOfSorted(entries, cap, encounter, frequency) ==
    LET kept == Range(TermsOf(entries))
        candidates == Range(encounter)
    IN  /\ Len(entries) = IF Cardinality(candidates) > cap THEN cap
                          ELSE Cardinality(candidates)
        /\ Cardinality(kept) = Len(entries)
        /\ kept \subseteq candidates
        /\ \A i \in 1..Len(entries) :
              entries[i].frequency = frequency[entries[i].term]
        /\ \A t \in kept, u \in candidates \ kept :
              \/ frequency[t] > frequency[u]
              \/ frequency[t] = frequency[u]
                    /\ FirstPosition(encounter, t) < FirstPosition(encounter, u)
        /\ C4_Ordered(entries, encounter)

\* the surviving words of a text in the order of their first occurrence
C25_Encounter(words) ==
    SelectSeq(CounterKeys(words), LAMBDA w : w \in C25_Survivors(words))

\* the frequency a per-channel list gives to a term, 0 when it is not listed
C25_FrequencyIn(entries, term) ==
    IF \E i \in 1..Len(entries) : entries[i].term = term
    THEN entries[CHOOSE i \in 1..Len(entries) : entries[i].term = term].frequency
    ELSE 0

\* C25: a per-channel extracted list has at most 50 entries and top_terms at
\* most 30; each is the first 50 (30) entries of the frequency-sorted list of
\* the terms that survive the filters (of the merged terms)
C25_ListsCapped ==
    /\ (args.web_research /\ web_terms.status = "extracted") =>
          /\ Len(web_terms.terms) <= PerChannelCap
          /\ C25_FirstOfSorted(web_terms.terms, PerChannelCap, C25_Encounter(WebWords),
                 [t \in C25_Survivors(WebWords) |-> Occurrences(WebWords, t)])
    /\ (args.youtube_research /\ youtube_terms.status = "extracted") =>
          /\ Len(youtube_terms.terms) <= PerChannelCap
          /\ C25_FirstOfSorted(youtube_terms.terms, PerChannelCap,
                 C25_Encounter(VideoWords),
                 [t \in C25_Survivors(VideoWords) |-> Occurrences(VideoWords, t)])
    /\ terminology_report # Unset =>
          LET web == C19_Contributed(web_terms)
              video == C19_Contributed(youtube_terms)
              encounter == CounterKeys(TermsOf(web \o video))
          IN  /\ Len(TopTerms) <= TopTermsCap
              /\ C25_FirstOfSorted(TopTerms, TopTermsCap, encounter,
                     [t \in Range(encounter) |->
                         C25_FrequencyIn(web, t) + C25_FrequencyIn(video, t)])

\* both channels found more than 50 terms and the merge more than 30
C25_AllCapsReached ==
    /\ terminology_report # Unset
    /\ Cardinality(C25_Survivors(WebWords)) > PerChannelCap
    /\ Cardinality(C25_Survivors(VideoWords)) > PerChannelCap
    /\ Len(web_terms.terms) = PerChannelCap
    /\ Len(youtube_terms.terms) = PerChannelCap
    /\ terminology_report.terminology_summary.total_unique_terms > PerChannelCap
    /\ Len(TopTerms) = TopTermsCap

\* the entries of a channel's list are as they were: the same terms with the
\* same frequency, category and learning_phase, and no sources field
C27_SameEntries(before, after) ==
    /\ Len(after) = Len(before)
    /\ \A i \in 1..Len(before) :
          /\ after[i].term = before[i].term
          /\ after[i].frequency = before[i].frequency
          /\ after[i].category = before[i].category
          /\ after[i].learning_phase = before[i].learning_phase
          /\ "sources" \notin DOMAIN after[i]

\* C27: the step that generates the terminology report leaves every term entry
\* of the web and of the video extraction result with the frequency, category
\* and learning_phase it had and without a sources field
C27_ReportStep ==
    terminology_report' # terminology_report =>
        /\ C27_SameEntries(ChannelTerms(web_terms), ChannelTerms(web_terms'))
        /\ C27_SameEntries(ChannelTerms(youtube_terms), ChannelTerms(youtube_terms'))

C27_InputsUnchanged == [][C27_ReportStep]_vars

\* the report has merged a term of both channels, and the web entry of the term
\* still has its own frequency, no phase and no sources
C27_SharedTermKeptApart ==
    /\ ReportReturned
    /\ \E i \in 1..Len(TopTerms), j \in 1..Len(ChannelTerms(web_terms)) :
          /\ Len(TopTerms[i].sources) = 2
          /\ web_terms.terms[j].term = TopTerms[i].term
          /\ web_terms.terms[j].frequency < TopTerms[i].frequency
          /\ web_terms.terms[j].learning_phase = "None"
          /\ TopTerms[i].learning_phase # "None"
          /\ "sources" \notin DOMAIN web_terms.terms[j]

C29_Categories == << "technical", "business", "learning", "general" >>
C29_Phases == << "introduction", "understanding", "application" >>

\* the sum of a histogram over the given keys
C29_Total(histogram, keys) ==
    SumSeq([k \in 1..Len(keys) |-> Get(histogram, keys[k], 0)])

\* C29: in a generated terminology report every entry of top_terms has one of
\* the three learning phases, never the placeholder of the extraction; the
\* category histogram and the phase histogram count no other key and each sum
\* to top_terms_count; top_terms_count is the length of top_terms and the
\* smaller of 30 and total_unique_terms
C29_ReportConsistent ==
    terminology_report # Unset =>
        LET summary == terminology_report.terminology_summary
        IN  /\ \A i \in 1..Len(TopTerms) :
                  /\ TopTerms[i].learning_phase \in Range(C29_Phases)
                  /\ TopTerms[i].learning_phase # "None"
            /\ DOMAIN summary.categories \subseteq Range(C29_Categories)
            /\ DOMAIN summary.learning_phases \subseteq Range(C29_Phases)
            /\ C29_Total(summary.categories, C29_Categories) = summary.top_terms_count
            /\ C29_Total(summary.learning_phases, C29_Phases) = summary.top_terms_count
            /\ summary.top_terms_count = Len(TopTerms)
            /\ summary.top_terms_count =
                  IF summary.total_unique_terms > TopTermsCap THEN TopTermsCap
                  ELSE summary.total_unique_terms

\* more than 30 terms are merged and 30 are counted
C29_CountCapped ==
    /\ terminology_report # Unset
    /\ terminology_report.terminology_summary.total_unique_terms > TopTermsCap
    /\ terminology_report.terminology_summary.top_terms_count = TopTermsCap
    /\ C29_Total(terminology_report.terminology_summary.learning_phases, C29_Phases)
          = TopTermsCap

\* a report of fewer terms whose histograms have several keys
C29_MixedHistograms ==
    /\ terminology_report # Unset
    /\ terminology_report.terminology_summary.top_terms_count
          = terminology_report.terminology_summary.total_unique_terms
    /\ DOMAIN terminology_report.terminology_summary.categories = Range(C29_Categories)
    /\ DOMAIN terminology_report.terminology_summary.learning_phases = Range(C29_Phases)

=============================================================================
